---- MODULE Spec2Model ----
(***************************************************************************)
(* A model of brace-config: the three-variant Value tree (Entry, Array,   *)
(* Table), its path engine (get / set with promotion), the dotted Key,    *)
(* and the encode / decode bridge between typed values and the tree.      *)
(*                                                                         *)
(* Text (address strings, path segments, table keys, Entry contents) is   *)
(* a sequence of one-character strings, so that splitting, parsing and    *)
(* formatting are computed character by character as the code does.       *)
(***************************************************************************)
EXTENDS Integers, Sequences, FiniteSets, TLC

VARIABLES
    root,   \* Config.0: the map of the root Table
    pre,    \* root as it was before the last operation
    op,     \* "init", "set" or "get": the last operation
    key,    \* the address handed to the last operation (before Into<Key>);
            \* for load and save, the file path
    arg,    \* set: the typed value written; get: the type requested
    res,    \* the Result the last operation returned
    nsets,  \* number of set calls made so far
    disk    \* the file system: the content of each file that exists

vars == <<root, pre, op, key, arg, res, nsets, disk>>

(***************************************************************************)
(* Bounds of the model.                                                    *)
(***************************************************************************)
MaxSets == 3

(***************************************************************************)
(* Text helpers.                                                           *)
(***************************************************************************)
Digits == <<"0", "1", "2", "3", "4", "5", "6", "7", "8", "9">>

IsDigit(c) == \E d \in 1..Len(Digits) : Digits[d] = c

DigitVal(c) == (CHOOSE d \in 1..Len(Digits) : Digits[d] = c) - 1

\* u64::MAX, the largest usize, as decimal text
UsizeMaxText ==
    <<"1", "8", "4", "4", "6", "7", "4", "4", "0", "7",
      "3", "7", "0", "9", "5", "5", "1", "6", "1", "5">>

RECURSIVE StripZeros(_)
StripZeros(s) ==
    IF s # <<>> /\ Head(s) = "0" THEN StripZeros(Tail(s)) ELSE s

RECURSIVE DigitsLess(_, _)
\* a < b for two digit texts of the same length
DigitsLess(a, b) ==
    IF a = <<>> THEN FALSE
    ELSE IF DigitVal(Head(a)) # DigitVal(Head(b))
         THEN DigitVal(Head(a)) < DigitVal(Head(b))
         ELSE DigitsLess(Tail(a), Tail(b))

RECURSIVE DigitsValue(_, _)
DigitsValue(s, acc) ==
    IF s = <<>> THEN acc ELSE DigitsValue(Tail(s), acc * 10 + DigitVal(Head(s)))

RECURSIVE NatToText(_)
\* usize / integer Display: decimal, no sign, no leading zeros
NatToText(n) ==
    IF n < 10 THEN <<Digits[n + 1]>>
    ELSE NatToText(n \div 10) \o <<Digits[(n % 10) + 1]>>

IntToText(n) == IF n < 0 THEN <<"-">> \o NatToText(0 - n) ELSE NatToText(n)

(***************************************************************************)
(* str::parse for the integer types (core::num::from_str_radix, radix 10) *)
(* as the decoder and the path engine call it.  A result is               *)
(* [ok |-> TRUE, n |-> value] or [ok |-> FALSE].                          *)
(***************************************************************************)
ParseFail == [ok |-> FALSE, n |-> 0]

ParseOk(n) == [ok |-> TRUE, n |-> n]

IntMin(signed, bits) == IF signed THEN 0 - 2 ^ (bits - 1) ELSE 0

IntMax(signed, bits) == IF signed THEN 2 ^ (bits - 1) - 1 ELSE 2 ^ bits - 1

RECURSIVE AccumulateSaturating(_, _, _, _, _)
\* Accumulate with saturating arithmetic in place of the checked one
AccumulateSaturating(s, acc, positive, lo, hi) ==
    IF s = <<>> THEN ParseOk(acc)
    ELSE IF ~IsDigit(Head(s)) THEN ParseFail
    ELSE LET d == DigitVal(Head(s))
             m == acc * 10
             n == IF positive THEN m + d ELSE m - d
         IN  IF n < lo THEN ParseOk(lo)
             ELSE IF n > hi THEN ParseOk(hi)
             ELSE AccumulateSaturating(Tail(s), n, positive, lo, hi)

RECURSIVE Accumulate(_, _, _, _, _)
\* checked_mul by 10, then checked_add (checked_sub for a negative number)
Accumulate(s, acc, positive, lo, hi) ==
    IF s = <<>> THEN ParseOk(acc)
    ELSE IF ~IsDigit(Head(s)) THEN ParseFail
    ELSE LET d == DigitVal(Head(s))
             m == acc * 10
             n == IF positive THEN m + d ELSE m - d
         IN  IF m < lo \/ m > hi \/ n < lo \/ n > hi THEN ParseFail
             ELSE Accumulate(Tail(s), n, positive, lo, hi)

\* ParseInt that takes a leading "-" for an invalid digit in every type
ParseIntNoSign(s, signed, bits) ==
    IF s = <<>> THEN ParseFail
    ELSE LET body == IF Head(s) = "+" THEN Tail(s) ELSE s
         IN  IF body = <<>> THEN ParseFail
             ELSE Accumulate(body, 0, TRUE, IntMin(signed, bits), IntMax(signed, bits))

\* entry.0.parse::<i8 | i16 | u8 | u16 | ...>()
ParseInt(s, signed, bits) ==
    IF s = <<>> THEN ParseFail
    ELSE LET sign == Head(s)
             positive == ~(signed /\ sign = "-")
             body == IF sign = "+" \/ (signed /\ sign = "-") THEN Tail(s) ELSE s
         IN  IF body = <<>> THEN ParseFail
             ELSE Accumulate(body, 0, positive, IntMin(signed, bits), IntMax(signed, bits))

\* head.parse::<usize>() with a 64-bit usize.  The overflow test compares
\* the digits with those of u64::MAX; an index of ten or more significant
\* digits is past every vector of the model and is reported as 10^9.
ParseUsize(s) ==
    IF s = <<>> THEN ParseFail
    ELSE LET body == IF Head(s) = "+" THEN Tail(s) ELSE s
             sig == StripZeros(body)
         IN  IF body = <<>> \/ (\E i \in 1..Len(body) : ~IsDigit(body[i])) THEN ParseFail
             ELSE IF Len(sig) > Len(UsizeMaxText) THEN ParseFail
             ELSE IF Len(sig) = Len(UsizeMaxText) /\ DigitsLess(UsizeMaxText, sig) THEN ParseFail
             ELSE IF Len(sig) <= 9 THEN ParseOk(DigitsValue(sig, 0))
             ELSE ParseOk(10 ^ 9)

\* entry.0.parse::<bool>()
ParseBool(s) ==
    IF s = <<"t", "r", "u", "e">> THEN [ok |-> TRUE, b |-> TRUE]
    ELSE IF s = <<"f", "a", "l", "s", "e">> THEN [ok |-> TRUE, b |-> FALSE]
    ELSE [ok |-> FALSE, b |-> FALSE]

\* entry.0.parse::<char>(): exactly one character
ParseChar(s) ==
    IF Len(s) = 1 THEN [ok |-> TRUE, c |-> s[1]] ELSE [ok |-> FALSE, c |-> ""]

BoolToText(b) == IF b THEN <<"t", "r", "u", "e">> ELSE <<"f", "a", "l", "s", "e">>

(***************************************************************************)
(* Key: the consumable path (value/key.rs).                                *)
(***************************************************************************)
None == [some |-> FALSE]

Some(x) == [some |-> TRUE, v |-> x]

RECURSIVE SplitDots(_, _)
\* str::split('.'): cur is the segment being collected
SplitDots(s, cur) ==
    IF s = <<>> THEN <<cur>>
    ELSE IF Head(s) = "." THEN <<cur>> \o SplitDots(Tail(s), <<>>)
    ELSE SplitDots(Tail(s), Append(cur, Head(s)))

KeyFromStr(s) == SplitDots(s, <<>>)

KeyFromUsize(n) == <<NatToText(n)>>

KeyPeek(k) == IF k = <<>> THEN None ELSE Some(Head(k))

\* Key::next that takes the segment from the back (pop_back)
KeyNextBack(k) ==
    IF k = <<>> THEN [item |-> None, rest |-> k]
    ELSE [item |-> Some(k[Len(k)]), rest |-> SubSeq(k, 1, Len(k) - 1)]

KeyNext(k) ==
    IF k = <<>> THEN [item |-> None, rest |-> k]
    ELSE [item |-> Some(Head(k)), rest |-> Tail(k)]

\* K: Into<Key> for the three address forms a caller can pass
IntoKey(a) ==
    CASE a.from = "str" -> KeyFromStr(a.s)
      [] a.from = "usize" -> KeyFromUsize(a.n)
      [] a.from = "key" -> a.k

(***************************************************************************)
(* Value: Entry | Array | Table (value/mod.rs).  A Table's map is a       *)
(* function from key text to Value; an Array's items are a sequence.      *)
(***************************************************************************)
EmptyMap == [k \in {} |-> k]

Entry(text) == [kind |-> "Entry", text |-> text]

Array(items) == [kind |-> "Array", items |-> items]

Table(map) == [kind |-> "Table", map |-> map]

\* Value::entry(), Value::array(), Value::table()
ValueEntry == Entry(<<>>)

ValueArray == Array(<<>>)

ValueTable == Table(EmptyMap)

\* MapPut into a map that forgets its other keys
MapPutAlone(map, k, v) == [j \in {k} |-> v]

\* HashMap::insert / the slot of HashMap::entry
MapPut(map, k, v) == [j \in DOMAIN map \cup {k} |-> IF j = k THEN v ELSE map[j]]

\* Vec::insert(index, v): aborts when index > len
VecInsert(items, index, v) ==
    SubSeq(items, 1, index) \o <<v>> \o SubSeq(items, index + 1, Len(items))

(***************************************************************************)
(* Errors: the message of value::Error, as its kind and the text it       *)
(* carries.  "panic" stands for an abort of the process.                  *)
(***************************************************************************)
NoErr == [e |-> "", at |-> <<>>]

Err(e, at) == [e |-> e, at |-> at]

EmptyKey == Err("empty key", <<>>)

(***************************************************************************)
(* Typed values: what a caller hands to set and gets back from get.       *)
(***************************************************************************)
VUnit == [ty |-> "unit"]

VBool(b) == [ty |-> "bool", b |-> b]

VInt(signed, bits, n) == [ty |-> "int", signed |-> signed, bits |-> bits, n |-> n]

VChar(c) == [ty |-> "char", c |-> c]

VStr(s) == [ty |-> "str", s |-> s]

\* a &Value handed to set (Value implements Serialize)
VValue(v) == [ty |-> "value", v |-> v]

\* enum values: a variant name and its content
VUnitVariant(name) == [ty |-> "enum", form |-> "unit", name |-> name]

VNewtypeVariant(name, payload) ==
    [ty |-> "enum", form |-> "newtype", name |-> name, payload |-> payload]

VTupleVariant(name, elems) ==
    [ty |-> "enum", form |-> "tuple", name |-> name, elems |-> elems]

VStructVariant(name, fields) ==
    [ty |-> "enum", form |-> "struct", name |-> name, fields |-> fields]

\* collections.  A Vec<T> carries T, a HashMap<K, V> carries K and V (the
\* static type is not lost when the collection is empty); its entries are
\* the <<key, value>> pairs it holds, one for a key.  A struct carries its field names in the
\* order of declaration and maps each name to its value.
VSeq(elemT, elems) == [ty |-> "seq", elemT |-> elemT, elems |-> elems]

VTuple(elems) == [ty |-> "tuple", elems |-> elems]

VMap(keyT, valT, entries) ==
    [ty |-> "map", keyT |-> keyT, valT |-> valT, entries |-> entries]

VStruct(names, fields) == [ty |-> "struct", names |-> names, fields |-> fields]

(***************************************************************************)
(* Encoder (value/ser.rs: ValueSerializer).  A result is                  *)
(* [ok, err, v]: v is the encoded Value when ok.                          *)
(***************************************************************************)
EncOk(v) == [ok |-> TRUE, err |-> NoErr, v |-> v]

EncFail == [ok |-> FALSE, err |-> Err("unsupported value", <<>>), v |-> ValueEntry]

\* Value::serialize: each node is serialised as its own kind (an Entry
\* as its text, an Array as a sequence, a Table as a map)
RECURSIVE EncodeValue(_)
EncodeValue(v) ==
    CASE v.kind = "Entry" -> EncOk(Entry(v.text))
      [] v.kind = "Array" ->
            LET parts == [i \in 1..Len(v.items) |-> EncodeValue(v.items[i])]
            IN  IF \E i \in 1..Len(parts) : ~parts[i].ok THEN EncFail
                ELSE EncOk(Array([i \in 1..Len(parts) |-> parts[i].v]))
      [] v.kind = "Table" ->
            LET parts == [k \in DOMAIN v.map |-> EncodeValue(v.map[k])]
            IN  IF \E k \in DOMAIN parts : ~parts[k].ok THEN EncFail
                ELSE EncOk(Table([k \in DOMAIN parts |-> parts[k].v]))

RECURSIVE Encode(_)

\* EncodeVariant that stores the content of a variant without the Table
\* keyed by the variant name
EncodeVariantBare(val) ==
    CASE val.form = "unit" -> EncOk(Entry(val.name))
      [] val.form = "newtype" -> Encode(val.payload)
      [] val.form = "tuple" ->
            LET parts == [i \in 1..Len(val.elems) |-> Encode(val.elems[i])]
            IN  IF \E i \in 1..Len(parts) : ~parts[i].ok THEN EncFail
                ELSE EncOk(Array([i \in 1..Len(parts) |-> parts[i].v]))
      [] val.form = "struct" ->
            LET parts == [k \in DOMAIN val.fields |-> Encode(val.fields[k])]
            IN  IF \E k \in DOMAIN parts : ~parts[k].ok THEN EncFail
                ELSE EncOk(Table([k \in DOMAIN parts |-> parts[k].v]))

\* serialize_unit_variant, serialize_newtype_variant,
\* serialize_tuple_variant, serialize_struct_variant
EncodeVariant(val) ==
    CASE val.form = "unit" -> EncOk(Entry(val.name))
      [] val.form = "newtype" ->
            LET p == Encode(val.payload)
            IN  IF ~p.ok THEN EncFail
                ELSE EncOk(Table(MapPut(EmptyMap, val.name, p.v)))
      [] val.form = "tuple" ->
            LET parts == [i \in 1..Len(val.elems) |-> Encode(val.elems[i])]
            IN  IF \E i \in 1..Len(parts) : ~parts[i].ok THEN EncFail
                ELSE EncOk(Table(MapPut(EmptyMap, val.name,
                         Array([i \in 1..Len(parts) |-> parts[i].v]))))
      [] val.form = "struct" ->
            LET parts == [k \in DOMAIN val.fields |-> Encode(val.fields[k])]
            IN  IF \E k \in DOMAIN parts : ~parts[k].ok THEN EncFail
                ELSE EncOk(Table(MapPut(EmptyMap, val.name,
                         Table([k \in DOMAIN parts |-> parts[k].v]))))

\* serialize_seq, serialize_tuple: an Array of the encoded elements
EncodeSeq(elems) ==
    LET parts == [i \in 1..Len(elems) |-> Encode(elems[i])]
    IN  IF \E i \in 1..Len(parts) : ~parts[i].ok THEN EncFail
        ELSE EncOk(Array([i \in 1..Len(parts) |-> parts[i].v]))

\* serialize_struct: a Table keyed by the field names
EncodeFields(fields) ==
    LET parts == [f \in DOMAIN fields |-> Encode(fields[f])]
    IN  IF \E f \in DOMAIN parts : ~parts[f].ok THEN EncFail
        ELSE EncOk(Table([f \in DOMAIN parts |-> parts[f].v]))

\* serialize_map: a Table keyed by the text of each key
EncodeMap(entries) ==
    LET keys == [e \in entries |-> Encode(e[1])]
        vals == [e \in entries |-> Encode(e[2])]
        texts == {keys[e].v.text : e \in {j \in entries : keys[j].v.kind = "Entry"}}
        holder(t) == CHOOSE e \in entries : keys[e].v = Entry(t)
    IN  IF \E e \in entries : ~keys[e].ok \/ keys[e].v.kind # "Entry" \/ ~vals[e].ok
        THEN EncFail
        ELSE EncOk(Table([t \in texts |-> vals[holder(t)].v]))

\* val.serialize(ValueSerializer)
Encode(val) ==
    CASE val.ty = "unit" -> EncFail
      [] val.ty = "bool" -> EncOk(Entry(BoolToText(val.b)))
      [] val.ty = "int" -> EncOk(Entry(IntToText(val.n)))
      [] val.ty = "char" -> EncOk(Entry(<<val.c>>))
      [] val.ty = "str" -> EncOk(Entry(val.s))
      [] val.ty = "value" -> EncodeValue(val.v)
      [] val.ty = "enum" -> EncodeVariant(val)
      [] val.ty \in {"seq", "tuple"} -> EncodeSeq(val.elems)
      [] val.ty = "map" -> EncodeMap(val.entries)
      [] val.ty = "struct" -> EncodeFields(val.fields)

(***************************************************************************)
(* The path engine, set side.  A result is [ok, err, node]: node is the   *)
(* receiver (&mut self) as the call leaves it, on success and on error.   *)
(***************************************************************************)
SetOk(node) == [ok |-> TRUE, err |-> NoErr, node |-> node]

SetFail(err, node) == [ok |-> FALSE, err |-> err, node |-> node]

RECURSIVE ValueSet(_, _, _), ArraySet(_, _, _), TableSet(_, _, _), RekeyArray(_, _, _)
RECURSIVE RekeyArrayFromOne(_, _, _)

\* Table::set that descends into a copy of the item and drops it
TableSetOnCopy(map, k, val) ==
    LET nx == KeyNext(k)
    IN  IF ~nx.item.some THEN SetFail(EmptyKey, map)
        ELSE LET head == nx.item.v
                 item == IF head \in DOMAIN map THEN map[head] ELSE ValueEntry
                 map1 == MapPut(map, head, item)
             IN  IF KeyPeek(nx.rest).some
                 THEN LET r == ValueSet(item, nx.rest, val)
                      IN  [ok |-> r.ok, err |-> r.err, node |-> map1]
                 ELSE LET e == Encode(val)
                      IN  IF e.ok THEN SetOk(MapPut(map1, head, e.v))
                          ELSE SetFail(e.err, map1)

\* Table::set whose terminal write leaves an Array or a Table in place
TableSetKeepContainer(map, k, val) ==
    LET nx == KeyNext(k)
    IN  IF ~nx.item.some THEN SetFail(EmptyKey, map)
        ELSE LET head == nx.item.v
                 item == IF head \in DOMAIN map THEN map[head] ELSE ValueEntry
                 map1 == MapPut(map, head, item)
             IN  IF KeyPeek(nx.rest).some
                 THEN LET r == ValueSet(item, nx.rest, val)
                      IN  [ok |-> r.ok, err |-> r.err, node |-> MapPut(map1, head, r.node)]
                 ELSE LET e == Encode(val)
                      IN  IF ~e.ok THEN SetFail(e.err, map1)
                          ELSE IF item.kind # "Entry" THEN SetOk(map1)
                          ELSE SetOk(MapPut(map1, head, e.v))

\* Table::set whose terminal write is or_insert: a key that the table
\* holds keeps its value
TableSetFirstWins(map, k, val) ==
    LET nx == KeyNext(k)
    IN  IF ~nx.item.some THEN SetFail(EmptyKey, map)
        ELSE LET head == nx.item.v
                 item == IF head \in DOMAIN map THEN map[head] ELSE ValueEntry
                 map1 == MapPut(map, head, item)
             IN  IF KeyPeek(nx.rest).some
                 THEN LET r == ValueSet(item, nx.rest, val)
                      IN  [ok |-> r.ok, err |-> r.err, node |-> MapPut(map1, head, r.node)]
                 ELSE LET e == Encode(val)
                      IN  IF ~e.ok THEN SetFail(e.err, map1)
                          ELSE IF head \in DOMAIN map THEN SetOk(map1)
                          ELSE SetOk(MapPut(map1, head, e.v))

\* Table::set that asks of a key that is an index what Array::set asks:
\* it is 0, or the table holds the key of the index before it
TableSetSequential(map, k, val) ==
    LET nx == KeyNext(k)
    IN  IF ~nx.item.some THEN SetFail(EmptyKey, map)
        ELSE LET head == nx.item.v
                 parsed == ParseUsize(head)
                 item == IF head \in DOMAIN map THEN map[head] ELSE ValueEntry
                 map1 == MapPut(map, head, item)
             IN  IF /\ parsed.ok /\ head \notin DOMAIN map /\ parsed.n > 0
                    /\ NatToText(parsed.n - 1) \notin DOMAIN map
                 THEN SetFail(Err("invalid index", NatToText(parsed.n)), map)
                 ELSE IF KeyPeek(nx.rest).some
                 THEN LET r == ValueSet(item, nx.rest, val)
                      IN  [ok |-> r.ok, err |-> r.err, node |-> MapPut(map1, head, r.node)]
                 ELSE LET e == Encode(val)
                      IN  IF e.ok THEN SetOk(MapPut(map1, head, e.v))
                          ELSE SetFail(e.err, map1)

\* Table::set: map is self.0
TableSet(map, k, val) ==
    LET nx == KeyNext(k)
    IN  IF ~nx.item.some THEN SetFail(EmptyKey, map)
        ELSE LET head == nx.item.v
                 \* self.0.entry(head).or_insert_with(Value::entry)
                 item == IF head \in DOMAIN map THEN map[head] ELSE ValueEntry
                 map1 == MapPut(map, head, item)
             IN  IF KeyPeek(nx.rest).some
                 THEN LET r == ValueSet(item, nx.rest, val)
                      IN  [ok |-> r.ok, err |-> r.err, node |-> MapPut(map1, head, r.node)]
                 ELSE LET e == Encode(val)
                      IN  IF e.ok THEN SetOk(MapPut(map1, head, e.v))
                          ELSE SetFail(e.err, map1)

\* Vec::get / Vec::get_mut
VecGet(items, index) ==
    IF index < Len(items) THEN Some(items[index + 1]) ELSE None

\* ArrayReplace that inserts the encoded value before the element
ArrayReplaceShift(items, index, rest, val) ==
    IF KeyPeek(rest).some
    THEN LET r == ValueSet(items[index + 1], rest, val)
         IN  [ok |-> r.ok, err |-> r.err, node |-> [items EXCEPT ![index + 1] = r.node]]
    ELSE LET e == Encode(val)
         IN  IF e.ok THEN SetOk(VecInsert(items, index, e.v))
             ELSE SetFail(e.err, items)

\* Array::set, get_mut(index) is Some(item): descend into the element, or
\* assign the encoded value to it
ArrayReplace(items, index, rest, val) ==
    IF KeyPeek(rest).some
    THEN LET r == ValueSet(items[index + 1], rest, val)
         IN  [ok |-> r.ok, err |-> r.err, node |-> [items EXCEPT ![index + 1] = r.node]]
    ELSE LET e == Encode(val)
         IN  IF e.ok THEN SetOk([items EXCEPT ![index + 1] = e.v])
             ELSE SetFail(e.err, items)

\* Array::set, the arm that inserts a new element at index: a new Entry
\* that the rest of the key is set into, or the encoded value
ArrayInsert(items, index, rest, val) ==
    LET made == IF KeyPeek(rest).some
                THEN LET r == ValueSet(ValueEntry, rest, val)
                     IN  [ok |-> r.ok, err |-> r.err, v |-> r.node]
                ELSE Encode(val)
    IN  IF ~made.ok THEN SetFail(made.err, items)
        ELSE IF index > Len(items) THEN SetFail(Err("panic", <<>>), items)
        ELSE SetOk(VecInsert(items, index, made.v))

\* ArrayGrow that looks for the predecessor without asking first whether
\* the index is 0: index - 1 underflows on an empty vector
ArrayGrowNoZeroArm(items, index, rest, val) ==
    IF index = 0 THEN SetFail(Err("panic", <<>>), items)
    ELSE IF VecGet(items, index - 1).some THEN ArrayInsert(items, index, rest, val)
    ELSE SetFail(Err("invalid index", NatToText(index)), items)

\* ArrayGrow without the test that the predecessor exists
ArrayGrowUnchecked(items, index, rest, val) == ArrayInsert(items, index, rest, val)

\* Array::set, get_mut(index) is None: index 0, or an index whose
\* predecessor exists, inserts; any other index is invalid
ArrayGrow(items, index, rest, val) ==
    IF index = 0 THEN ArrayInsert(items, index, rest, val)
    ELSE IF VecGet(items, index - 1).some THEN ArrayInsert(items, index, rest, val)
    ELSE SetFail(Err("invalid index", NatToText(index)), items)

\* Array::set: items is self.0
ArraySet(items, k, val) ==
    LET nx == KeyNext(k)
    IN  IF ~nx.item.some THEN SetFail(EmptyKey, items)
        ELSE LET head == nx.item.v
                 parsed == ParseUsize(head)
             IN  IF ~parsed.ok THEN SetFail(Err("invalid key", head), items)
                 ELSE IF VecGet(items, parsed.n).some
                 THEN ArrayReplace(items, parsed.n, nx.rest, val)
                 ELSE ArrayGrow(items, parsed.n, nx.rest, val)

\* RekeyArray that counts the elements from one
RekeyArrayFromOne(items, from, map) ==
    IF from >= Len(items) THEN SetOk(map)
    ELSE LET r == TableSet(map, KeyFromUsize(from + 1), VValue(items[from + 1]))
         IN  IF ~r.ok THEN r ELSE RekeyArrayFromOne(items, from + 1, r.node)

\* the loop of Value::set that moves the elements of an Array into a new
\* Table: table.set(index, item)? for index = from, from + 1, ...
RekeyArray(items, from, map) ==
    IF from >= Len(items) THEN SetOk(map)
    ELSE LET r == TableSet(map, KeyFromUsize(from), VValue(items[from + 1]))
         IN  IF ~r.ok THEN r ELSE RekeyArray(items, from + 1, r.node)

\* Promote with its two arms exchanged
PromoteSwapped(head) == IF ParseUsize(head).ok THEN ValueTable ELSE ValueArray

\* Value::set on an Entry: the empty container the Entry is replaced by
Promote(head) == IF ParseUsize(head).ok THEN ValueArray ELSE ValueTable

\* Value::set that replaces the node by the new container before it sets
\* the key into it, so that a failure leaves the container in place
ValueSetCommitFirst(v, k, val) ==
    LET pk == KeyPeek(k)
    IN  IF ~pk.some THEN SetFail(EmptyKey, v)
        ELSE LET head == pk.v
             IN  CASE v.kind = "Entry" ->
                        LET r == ValueSet(Promote(head), k, val)
                        IN  [ok |-> r.ok, err |-> r.err, node |-> r.node]
                   [] v.kind = "Array" ->
                        IF ParseUsize(head).ok
                        THEN LET r == ArraySet(v.items, k, val)
                             IN  [ok |-> r.ok, err |-> r.err, node |-> Array(r.node)]
                        ELSE LET moved == RekeyArray(v.items, 0, EmptyMap)
                                 r == IF moved.ok THEN ValueSet(Table(moved.node), k, val)
                                      ELSE SetFail(moved.err, Table(moved.node))
                             IN  [ok |-> r.ok, err |-> r.err, node |-> r.node]
                   [] v.kind = "Table" ->
                        LET r == TableSet(v.map, k, val)
                        IN  [ok |-> r.ok, err |-> r.err, node |-> Table(r.node)]

\* Value::set that takes an index as the sign of an Array whatever the
\* node is: a Table met with an index is replaced by a new Array
ValueSetIndexMeansArray(v, k, val) ==
    LET pk == KeyPeek(k)
    IN  IF ~pk.some THEN SetFail(EmptyKey, v)
        ELSE LET head == pk.v
             IN  CASE v.kind = "Entry" ->
                        LET r == ValueSet(Promote(head), k, val)
                        IN  IF r.ok THEN SetOk(r.node) ELSE SetFail(r.err, v)
                   [] v.kind = "Array" ->
                        IF ParseUsize(head).ok
                        THEN LET r == ArraySet(v.items, k, val)
                             IN  [ok |-> r.ok, err |-> r.err, node |-> Array(r.node)]
                        ELSE LET moved == RekeyArray(v.items, 0, EmptyMap)
                                 r == IF moved.ok THEN ValueSet(Table(moved.node), k, val)
                                      ELSE SetFail(moved.err, v)
                             IN  IF r.ok THEN SetOk(r.node) ELSE SetFail(r.err, v)
                   [] v.kind = "Table" ->
                        IF ParseUsize(head).ok
                        THEN LET r == ArraySet(<<>>, k, val)
                             IN  IF r.ok THEN SetOk(Array(r.node)) ELSE SetFail(r.err, v)
                        ELSE LET r == TableSet(v.map, k, val)
                             IN  [ok |-> r.ok, err |-> r.err, node |-> Table(r.node)]

\* Value::set: v is self
ValueSet(v, k, val) ==
    LET pk == KeyPeek(k)
    IN  IF ~pk.some THEN SetFail(EmptyKey, v)
        ELSE LET head == pk.v
             IN  CASE v.kind = "Entry" ->
                        LET r == ValueSet(Promote(head), k, val)
                        IN  IF r.ok THEN SetOk(r.node) ELSE SetFail(r.err, v)
                   [] v.kind = "Array" ->
                        IF ParseUsize(head).ok
                        THEN LET r == ArraySet(v.items, k, val)
                             IN  [ok |-> r.ok, err |-> r.err, node |-> Array(r.node)]
                        ELSE LET moved == RekeyArray(v.items, 0, EmptyMap)
                                 r == IF moved.ok THEN ValueSet(Table(moved.node), k, val)
                                      ELSE SetFail(moved.err, v)
                             IN  IF r.ok THEN SetOk(r.node) ELSE SetFail(r.err, v)
                   [] v.kind = "Table" ->
                        LET r == TableSet(v.map, k, val)
                        IN  [ok |-> r.ok, err |-> r.err, node |-> Table(r.node)]

\* Config::set
ConfigSet(map, k, val) == TableSet(map, k, val)

(***************************************************************************)
(* The calls a set makes.  chain counts the calls of Value::set,          *)
(* Array::set and Table::set that follow the key, each made by the one    *)
(* before it; moved counts the calls that the loop of Value::set makes to *)
(* move the elements of an Array into a Table (for each element one       *)
(* Value::set on the new table, which makes one Table::set).              *)
(***************************************************************************)
Calls(chain, moved) == [chain |-> chain, moved |-> moved]

\* one call, and the calls it makes
After1(c) == Calls(c.chain + 1, c.moved)

RECURSIVE ValueSetCalls(_, _, _), ArraySetCalls(_, _, _), TableSetCalls(_, _, _)

\* TableSetCalls of a Table::set that makes its nested call twice
TableSetCallsTwice(map, k, val) ==
    LET nx == KeyNext(k)
    IN  IF ~nx.item.some THEN Calls(1, 0)
        ELSE LET head == nx.item.v
                 item == IF head \in DOMAIN map THEN map[head] ELSE ValueEntry
                 c == ValueSetCalls(item, nx.rest, val)
             IN  IF KeyPeek(nx.rest).some THEN Calls(1 + 2 * c.chain, 2 * c.moved)
                 ELSE Calls(1, 0)

\* Table::set
TableSetCalls(map, k, val) ==
    LET nx == KeyNext(k)
    IN  IF ~nx.item.some THEN Calls(1, 0)
        ELSE LET head == nx.item.v
                 item == IF head \in DOMAIN map THEN map[head] ELSE ValueEntry
             IN  IF KeyPeek(nx.rest).some THEN After1(ValueSetCalls(item, nx.rest, val))
                 ELSE Calls(1, 0)

\* Array::set
ArraySetCalls(items, k, val) ==
    LET nx == KeyNext(k)
    IN  IF ~nx.item.some THEN Calls(1, 0)
        ELSE LET parsed == ParseUsize(nx.item.v)
                 deeper == KeyPeek(nx.rest).some
             IN  IF ~parsed.ok THEN Calls(1, 0)
                 ELSE IF VecGet(items, parsed.n).some
                 THEN IF deeper THEN After1(ValueSetCalls(items[parsed.n + 1], nx.rest, val))
                      ELSE Calls(1, 0)
                 ELSE IF parsed.n = 0 \/ VecGet(items, parsed.n - 1).some
                 THEN IF deeper THEN After1(ValueSetCalls(ValueEntry, nx.rest, val))
                      ELSE Calls(1, 0)
                 ELSE Calls(1, 0)

\* Value::set
ValueSetCalls(v, k, val) ==
    LET pk == KeyPeek(k)
    IN  IF ~pk.some THEN Calls(1, 0)
        ELSE CASE v.kind = "Entry" -> After1(ValueSetCalls(Promote(pk.v), k, val))
               [] v.kind = "Array" ->
                    IF ParseUsize(pk.v).ok THEN After1(ArraySetCalls(v.items, k, val))
                    ELSE LET moved == RekeyArray(v.items, 0, EmptyMap)
                             c == ValueSetCalls(Table(moved.node), k, val)
                         IN  IF moved.ok
                             THEN Calls(c.chain + 1, c.moved + 2 * Len(v.items))
                             ELSE Calls(1, 2 * Len(v.items))
               [] v.kind = "Table" -> After1(TableSetCalls(v.map, k, val))

\* Config::set
ConfigSetCalls(map, k, val) == TableSetCalls(map, k, val)

(***************************************************************************)
(* The calls a get makes: Value::get, Array::get and Table::get.          *)
(***************************************************************************)
RECURSIVE ValueGetCalls(_, _), ArrayGetCalls(_, _), TableGetCalls(_, _)

\* Table::get
TableGetCalls(map, k) ==
    LET nx == KeyNext(k)
    IN  IF ~nx.item.some THEN 1
        ELSE IF nx.item.v \in DOMAIN map /\ KeyPeek(nx.rest).some
        THEN 1 + ValueGetCalls(map[nx.item.v], nx.rest)
        ELSE 1

\* Array::get
ArrayGetCalls(items, k) ==
    LET nx == KeyNext(k)
    IN  IF ~nx.item.some THEN 1
        ELSE LET parsed == ParseUsize(nx.item.v)
             IN  IF parsed.ok /\ parsed.n < Len(items) /\ KeyPeek(nx.rest).some
                 THEN 1 + ValueGetCalls(items[parsed.n + 1], nx.rest)
                 ELSE 1

\* Value::get
ValueGetCalls(v, k) ==
    CASE v.kind = "Entry" -> 1
      [] v.kind = "Array" -> 1 + ArrayGetCalls(v.items, k)
      [] v.kind = "Table" -> 1 + TableGetCalls(v.map, k)

\* Config::get
ConfigGetCalls(map, k) == TableGetCalls(map, k)

(***************************************************************************)
(* Types a caller can request from get.                                    *)
(***************************************************************************)
TString == [t |-> "string"]

TBool == [t |-> "bool"]

TChar == [t |-> "char"]

TInt(signed, bits) == [t |-> "int", signed |-> signed, bits |-> bits]

\* the unit type (), which the derived code requests for a unit variant
TUnit == [t |-> "unit"]

\* an enum: variants maps each variant name to its form and content types
TEnum(variants) == [t |-> "enum", variants |-> variants]

\* Vec<T>, a tuple, HashMap<K, V>, and a struct with named fields (names
\* is the order of declaration)
TSeq(elem) == [t |-> "seq", elem |-> elem]

TTuple(elems) == [t |-> "tuple", elems |-> elems]

TMap(keyT, valT) == [t |-> "map", key |-> keyT, val |-> valT]

TStruct(names, fields) == [t |-> "struct", names |-> names, fields |-> fields]

UnitForm == [form |-> "unit"]

NewtypeForm(payload) == [form |-> "newtype", payload |-> payload]

TupleForm(elems) == [form |-> "tuple", elems |-> elems]

StructForm(fields) == [form |-> "struct", fields |-> fields]

(***************************************************************************)
(* Decoder (value/de.rs: ValueDeserializer).  A result is [ok, err, v].   *)
(***************************************************************************)
GetOk(v) == [ok |-> TRUE, err |-> NoErr, v |-> v]

GetFail(err) == [ok |-> FALSE, err |-> err, v |-> VUnit]

\* "cannot deserialize <kind> variant as <type>"
Mismatch(value) == GetFail(Err("cannot deserialize", <<value.kind>>))

\* deserialize_bool
DeserializeBool(value) ==
    IF value.kind # "Entry" THEN Mismatch(value)
    ELSE LET p == ParseBool(value.text)
         IN  IF p.ok THEN GetOk(VBool(p.b)) ELSE GetFail(Err("parse", value.text))

\* deserialize_i8, _i16, ..., _u8, _u16, ...
DeserializeInt(value, signed, bits) ==
    IF value.kind # "Entry" THEN Mismatch(value)
    ELSE LET p == ParseInt(value.text, signed, bits)
         IN  IF p.ok THEN GetOk(VInt(signed, bits, p.n))
             ELSE GetFail(Err("parse", value.text))

\* deserialize_char
DeserializeChar(value) ==
    IF value.kind # "Entry" THEN Mismatch(value)
    ELSE LET p == ParseChar(value.text)
         IN  IF p.ok THEN GetOk(VChar(p.c)) ELSE GetFail(Err("parse", value.text))

\* deserialize_string that reads a container as the empty text
DeserializeStringOfContainer(value) ==
    IF value.kind # "Entry" THEN GetOk(VStr(<<>>)) ELSE GetOk(VStr(value.text))

\* deserialize_string
DeserializeString(value) ==
    IF value.kind # "Entry" THEN Mismatch(value) ELSE GetOk(VStr(value.text))

\* deserialize_unit is forwarded to deserialize_any, whose visit_str,
\* visit_seq or visit_map the visitor of () does not accept
DeserializeUnit(value) == GetFail(Err("invalid type", <<value.kind>>))

RECURSIVE Decode(_, _), DeserializeEnum(_, _), VariantAccess(_, _, _)

\* deserialize_enum that passes no payload on for a Table
DeserializeEnumNoPayload(T, value) ==
    CASE value.kind = "Entry" -> VariantAccess(T, value.text, None)
      [] value.kind = "Table" ->
            IF Cardinality(DOMAIN value.map) # 1
            THEN GetFail(Err("invalid value", <<"Table">>))
            ELSE LET variant == CHOOSE k \in DOMAIN value.map : TRUE
                 IN  VariantAccess(T, variant, None)
      [] value.kind = "Array" -> GetFail(Err("invalid type", <<"Array">>))

\* deserialize_enum that reads an Array node through its first element
DeserializeEnumFirstItem(T, value) ==
    CASE value.kind = "Entry" -> VariantAccess(T, value.text, None)
      [] value.kind = "Table" ->
            IF Cardinality(DOMAIN value.map) # 1
            THEN GetFail(Err("invalid value", <<"Table">>))
            ELSE LET variant == CHOOSE k \in DOMAIN value.map : TRUE
                 IN  VariantAccess(T, variant, Some(value.map[variant]))
      [] value.kind = "Array" ->
            IF value.items = <<>> THEN GetFail(Err("invalid type", <<"Array">>))
            ELSE Decode(T, value.items[1])

\* deserialize_enum: the variant name and the optional payload of the node
DeserializeEnum(T, value) ==
    CASE value.kind = "Entry" -> VariantAccess(T, value.text, None)
      [] value.kind = "Table" ->
            IF Cardinality(DOMAIN value.map) # 1
            THEN GetFail(Err("invalid value", <<"Table">>))
            ELSE LET variant == CHOOSE k \in DOMAIN value.map : TRUE
                 IN  VariantAccess(T, variant, Some(value.map[variant]))
      [] value.kind = "Array" -> GetFail(Err("invalid type", <<"Array">>))

\* EnumDeserializer::variant_seed, then the VariantAccess method the
\* variant's form calls: unit_variant, newtype_variant_seed, tuple_variant
\* or struct_variant
VariantAccess(T, variant, payload) ==
    IF variant \notin DOMAIN T.variants THEN GetFail(Err("unknown variant", variant))
    ELSE LET V == T.variants[variant]
         IN  CASE V.form = "unit" ->
                    IF ~payload.some THEN GetOk(VUnitVariant(variant))
                    ELSE LET r == Decode(TUnit, payload.v)
                         IN  IF r.ok THEN GetOk(VUnitVariant(variant)) ELSE r
               [] V.form = "newtype" ->
                    IF ~payload.some THEN GetFail(Err("invalid type", <<"UnitVariant">>))
                    ELSE LET r == Decode(V.payload, payload.v)
                         IN  IF r.ok THEN GetOk(VNewtypeVariant(variant, r.v)) ELSE r
               [] V.form = "tuple" ->
                    IF ~payload.some THEN GetFail(Err("invalid type", <<"UnitVariant">>))
                    ELSE IF payload.v.kind # "Array"
                    THEN GetFail(Err("invalid type", <<payload.v.kind>>))
                    ELSE LET items == payload.v.items
                             n == Len(V.elems)
                             parts == [i \in 1..n |->
                                         IF i <= Len(items) THEN Decode(V.elems[i], items[i])
                                         ELSE GetFail(Err("invalid length", <<>>))]
                             bad == {i \in 1..n : ~parts[i].ok}
                         IN  IF bad # {}
                             THEN parts[CHOOSE i \in bad : \A j \in bad : i <= j]
                             ELSE IF Len(items) > n THEN GetFail(Err("invalid length", <<>>))
                             ELSE GetOk(VTupleVariant(variant, [i \in 1..n |-> parts[i].v]))
               [] V.form = "struct" ->
                    IF ~payload.some THEN GetFail(Err("invalid type", <<"UnitVariant">>))
                    ELSE IF payload.v.kind # "Table"
                    THEN GetFail(Err("invalid type", <<payload.v.kind>>))
                    ELSE LET map == payload.v.map
                             names == DOMAIN V.fields
                             parts == [f \in names |->
                                         IF f \in DOMAIN map THEN Decode(V.fields[f], map[f])
                                         ELSE GetFail(Err("missing field", f))]
                             bad == {f \in names : ~parts[f].ok}
                         IN  IF bad # {}
                             THEN parts[CHOOSE f \in bad : TRUE]
                             ELSE GetOk(VStructVariant(variant, [f \in names |-> parts[f].v]))

\* the positional reading of an Array by a visitor that expects the types
\* of elems, one after the other: visit_seq takes an element for each type
\* and SeqDeserializer::end() refuses the elements that are left
SeqAccess(elems, items) ==
    LET n == Len(elems)
        parts == [i \in 1..n |->
                    IF i <= Len(items) THEN Decode(elems[i], items[i])
                    ELSE GetFail(Err("invalid length", <<>>))]
        bad == {i \in 1..n : ~parts[i].ok}
    IN  IF bad # {} THEN parts[CHOOSE i \in bad : \A j \in bad : i <= j]
        ELSE IF Len(items) > n THEN GetFail(Err("invalid length", <<>>))
        ELSE GetOk([i \in 1..n |-> parts[i].v])

\* deserialize_seq (forwarded to deserialize_any) for Vec<T>: the visitor
\* accepts visit_seq only, and takes every element
DeserializeSeq(T, value) ==
    IF value.kind # "Array" THEN GetFail(Err("invalid type", <<value.kind>>))
    ELSE LET r == SeqAccess([i \in 1..Len(value.items) |-> T.elem], value.items)
         IN  IF r.ok THEN GetOk(VSeq(T.elem, r.v)) ELSE r

\* deserialize_tuple (forwarded to deserialize_any)
DeserializeTuple(T, value) ==
    IF value.kind # "Array" THEN GetFail(Err("invalid type", <<value.kind>>))
    ELSE LET r == SeqAccess(T.elems, value.items)
         IN  IF r.ok THEN GetOk(VTuple(r.v)) ELSE r

\* a key of deserialize_table: the owned String of the key, handed to the
\* key type through String::into_deserializer, which offers it to the
\* visitor as a string whatever the type asks for
DecodeKey(T, text) ==
    CASE T.t = "string" -> GetOk(VStr(text))
      [] T.t = "char" ->
            LET p == ParseChar(text)
            IN  IF p.ok THEN GetOk(VChar(p.c)) ELSE GetFail(Err("invalid value", text))
      [] T.t \in {"int", "bool"} -> GetFail(Err("invalid type", text))

\* deserialize_map (forwarded to deserialize_any) for HashMap<K, V>: the
\* visitor accepts visit_map only
DeserializeMap(T, value) ==
    IF value.kind # "Table" THEN GetFail(Err("invalid type", <<value.kind>>))
    ELSE LET map == value.map
             keys == [t \in DOMAIN map |-> DecodeKey(T.key, t)]
             vals == [t \in DOMAIN map |-> Decode(T.val, map[t])]
             badk == {t \in DOMAIN map : ~keys[t].ok}
             badv == {t \in DOMAIN map : ~vals[t].ok}
             holder(k) == CHOOSE t \in DOMAIN map : keys[t].v = k
         IN  IF badk # {} THEN keys[CHOOSE t \in badk : TRUE]
             ELSE IF badv # {} THEN vals[CHOOSE t \in badv : TRUE]
             ELSE GetOk(VMap(T.key, T.val,
                             {<<k, vals[holder(k)].v>> : k \in {keys[t].v : t \in DOMAIN map}}))

\* deserialize_struct (forwarded to deserialize_any) for a struct with
\* named fields: the derived visitor reads a Table by field name, skipping
\* the keys it does not know, and an Array by position
DeserializeStruct(T, value) ==
    CASE value.kind = "Entry" -> GetFail(Err("invalid type", <<"Entry">>))
      [] value.kind = "Array" ->
            LET r == SeqAccess([i \in 1..Len(T.names) |-> T.fields[T.names[i]]], value.items)
            IN  IF ~r.ok THEN r
                ELSE GetOk(VStruct(T.names,
                        [f \in DOMAIN T.fields |->
                            r.v[CHOOSE i \in 1..Len(T.names) : T.names[i] = f]]))
      [] value.kind = "Table" ->
            LET map == value.map
                parts == [f \in DOMAIN T.fields |->
                            IF f \in DOMAIN map THEN Decode(T.fields[f], map[f])
                            ELSE GetFail(Err("missing field", f))]
                bad == {f \in DOMAIN T.fields : ~parts[f].ok}
            IN  IF bad # {} THEN parts[CHOOSE f \in bad : TRUE]
                ELSE GetOk(VStruct(T.names, [f \in DOMAIN T.fields |-> parts[f].v]))

\* V::deserialize(ValueDeserializer::new(value)) for the requested type T
Decode(T, value) ==
    CASE T.t = "string" -> DeserializeString(value)
      [] T.t = "bool" -> DeserializeBool(value)
      [] T.t = "char" -> DeserializeChar(value)
      [] T.t = "int" -> DeserializeInt(value, T.signed, T.bits)
      [] T.t = "unit" -> DeserializeUnit(value)
      [] T.t = "enum" -> DeserializeEnum(T, value)
      [] T.t = "seq" -> DeserializeSeq(T, value)
      [] T.t = "tuple" -> DeserializeTuple(T, value)
      [] T.t = "map" -> DeserializeMap(T, value)
      [] T.t = "struct" -> DeserializeStruct(T, value)

(***************************************************************************)
(* The path engine, get side.                                              *)
(***************************************************************************)
RECURSIVE ValueGet(_, _, _), ArrayGet(_, _, _), TableGet(_, _, _)

\* Table::get
TableGet(map, k, T) ==
    LET nx == KeyNext(k)
    IN  IF ~nx.item.some THEN GetFail(EmptyKey)
        ELSE LET head == nx.item.v
             IN  IF head \notin DOMAIN map
                 THEN GetFail(Err("missing value for key", head))
                 ELSE IF KeyPeek(nx.rest).some THEN ValueGet(map[head], nx.rest, T)
                 ELSE Decode(T, map[head])

\* ArrayGet that answers an index past the end with the default of the
\* requested type
ArrayGetDefault(items, k, T) ==
    LET nx == KeyNext(k)
    IN  IF ~nx.item.some THEN GetFail(EmptyKey)
        ELSE LET head == nx.item.v
                 parsed == ParseUsize(head)
             IN  IF ~parsed.ok THEN GetFail(Err("invalid key", head))
                 ELSE IF parsed.n >= Len(items) THEN GetOk(VStr(<<>>))
                 ELSE IF KeyPeek(nx.rest).some THEN ValueGet(items[parsed.n + 1], nx.rest, T)
                 ELSE Decode(T, items[parsed.n + 1])

\* Array::get
ArrayGet(items, k, T) ==
    LET nx == KeyNext(k)
    IN  IF ~nx.item.some THEN GetFail(EmptyKey)
        ELSE LET head == nx.item.v
                 parsed == ParseUsize(head)
             IN  IF ~parsed.ok THEN GetFail(Err("invalid key", head))
                 ELSE IF parsed.n >= Len(items)
                 THEN GetFail(Err("missing value for key", NatToText(parsed.n)))
                 ELSE IF KeyPeek(nx.rest).some THEN ValueGet(items[parsed.n + 1], nx.rest, T)
                 ELSE Decode(T, items[parsed.n + 1])

\* Value::get that reads an Entry whatever is left of the key
ValueGetEntryDecodes(v, k, T) ==
    CASE v.kind = "Entry" -> Decode(T, v)
      [] v.kind = "Array" -> ArrayGet(v.items, k, T)
      [] v.kind = "Table" -> TableGet(v.map, k, T)

\* Value::get
ValueGet(v, k, T) ==
    CASE v.kind = "Entry" -> GetFail(Err("call get on entry variant", <<>>))
      [] v.kind = "Array" -> ArrayGet(v.items, k, T)
      [] v.kind = "Table" -> TableGet(v.map, k, T)

\* Config::get
ConfigGet(map, k, T) == TableGet(map, k, T)

(***************************************************************************)
(* The file layer (file/mod.rs): load and save pick the format from the   *)
(* extension of the path.  A path is text; a file on disk is the format   *)
(* it was written in and the tree written.  A result is [ok, err, v, io]: *)
(* v is the tree read, io the calls made on the file system.              *)
(***************************************************************************)
RECURSIVE LastIndexOf(_, _)
\* the position of the last c in s, or 0
LastIndexOf(s, c) ==
    IF s = <<>> THEN 0
    ELSE IF s[Len(s)] = c THEN Len(s)
    ELSE LastIndexOf(SubSeq(s, 1, Len(s) - 1), c)

RECURSIVE StripSlashes(_)
\* a path without its trailing separators
StripSlashes(s) ==
    IF Len(s) > 1 /\ s[Len(s)] = "/" THEN StripSlashes(SubSeq(s, 1, Len(s) - 1)) ELSE s

\* Path::file_name: the last component
FileName(path) ==
    LET p == StripSlashes(path)
    IN  SubSeq(p, LastIndexOf(p, "/") + 1, Len(p))

\* Path::extension: what follows the last dot of the file name; None when
\* there is no file name, no dot, or only a dot that begins the name
PathExtension(path) ==
    LET name == FileName(path)
        dot == LastIndexOf(name, ".")
    IN  IF name = <<>> \/ name = <<".", ".">> THEN None
        ELSE IF dot <= 1 THEN None
        ELSE Some(SubSeq(name, dot + 1, Len(name)))

ExtJson == <<"j", "s", "o", "n">>

ExtToml == <<"t", "o", "m", "l">>

ExtYaml == <<"y", "a", "m", "l">>

ExtYml == <<"y", "m", "l">>

\* the format module an extension selects (json, toml and yaml features
\* enabled), or None
FormatOf(ext) ==
    IF ~ext.some THEN None
    ELSE IF ext.v = ExtJson THEN Some("json")
    ELSE IF ext.v = ExtToml THEN Some("toml")
    ELSE IF ext.v \in {ExtYaml, ExtYml} THEN Some("yaml")
    ELSE None

FileOk(v, io) == [ok |-> TRUE, err |-> NoErr, v |-> v, io |-> io]

FileFail(err, io) == [ok |-> FALSE, err |-> err, v |-> EmptyMap, io |-> io]

\* Error::invalid_file_type(extension, path)
InvalidFileType(ext, path) == Err("invalid file type", <<ext, path>>)

\* <format>::load: read_to_string(path)?, then from_str
FormatLoad(fmt, path, files) ==
    IF path \notin DOMAIN files THEN FileFail(Err("io", path), <<"read_to_string">>)
    ELSE IF files[path].fmt # fmt THEN FileFail(Err("parse", path), <<"read_to_string">>)
    ELSE FileOk(files[path].tree, <<"read_to_string">>)

\* file::load
FileLoad(path, files) ==
    LET ext == PathExtension(path)
        fmt == FormatOf(ext)
    IN  IF fmt.some THEN FormatLoad(fmt.v, path, files)
        ELSE FileFail(InvalidFileType(ext, path), <<>>)

\* <format>::save: the text of the value, then open (create, truncate)
\* and write_all; the result carries the files as the call leaves them
FormatSave(fmt, path, tree, files) ==
    [ok |-> TRUE, err |-> NoErr, v |-> EmptyMap, io |-> <<"open", "write_all">>,
     files |-> MapPut(files, path, [fmt |-> fmt, tree |-> tree])]

\* FileSave that writes a path of no recognised extension as toml
FileSaveDefaultToml(path, tree, files) ==
    LET ext == PathExtension(path)
        fmt == FormatOf(ext)
    IN  IF fmt.some THEN FormatSave(fmt.v, path, tree, files)
        ELSE FormatSave("toml", path, tree, files)

\* file::save
FileSave(path, tree, files) ==
    LET ext == PathExtension(path)
        fmt == FormatOf(ext)
    IN  IF fmt.some THEN FormatSave(fmt.v, path, tree, files)
        ELSE [ok |-> FALSE, err |-> InvalidFileType(ext, path), v |-> EmptyMap,
              io |-> <<>>, files |-> files]

(***************************************************************************)
(* Inputs of the tree specification: address strings, a Key with no       *)
(* segments left (one consumed by next()), and the values written.        *)
(***************************************************************************)
FromStr(s) == [from |-> "str", s |-> s]

FromKey(k) == [from |-> "key", k |-> k]

AddrEmpty == <<>>

AddrS == <<"s">>

AddrS0 == <<"s", ".", "0">>

AddrS1 == <<"s", ".", "1">>

AddrS2 == <<"s", ".", "2">>

AddrS00 == <<"s", ".", "0", "0">>

AddrSa == <<"s", ".", "a">>

AddrSab == <<"s", ".", "a", ".", "b">>

AddrS0a == <<"s", ".", "0", ".", "a">>

Addrs ==
    {FromStr(a) : a \in {AddrEmpty, AddrS, AddrS0, AddrS1, AddrS2, AddrS00,
                         AddrSa, AddrSab, AddrS0a}}
    \cup {FromKey(<<>>)}

ValX == VStr(<<"x">>)

ValY == VStr(<<"y">>)

Vals == {ValX, ValY, VUnit}

(***************************************************************************)
(* The state machine: a Config and the calls made on it.                  *)
(***************************************************************************)
\* Config::new()
Init ==
    /\ root = EmptyMap
    /\ pre = EmptyMap
    /\ op = "init"
    /\ key = FromKey(<<>>)
    /\ arg = VUnit
    /\ res = [ok |-> TRUE, err |-> NoErr, v |-> VUnit]
    /\ nsets = 0
    /\ disk = EmptyMap

\* cfg.set(a, val)
Set(a, val) ==
    /\ nsets < MaxSets
    /\ LET r == ConfigSet(root, IntoKey(a), val)
       IN  /\ root' = r.node
           /\ res' = [ok |-> r.ok, err |-> r.err, v |-> VUnit]
    /\ pre' = root
    /\ op' = "set"
    /\ key' = a
    /\ arg' = val
    /\ nsets' = nsets + 1
    /\ UNCHANGED disk

\* cfg.get::<_, T>(a)
Get(a, T) ==
    /\ res' = ConfigGet(root, IntoKey(a), T)
    /\ pre' = root
    /\ op' = "get"
    /\ key' = a
    /\ arg' = T
    /\ UNCHANGED <<root, nsets, disk>>

Next ==
    \/ \E a \in Addrs, val \in Vals : Set(a, val)
    \/ \E a \in Addrs : Get(a, TString)

Spec == Init /\ [][Next]_vars

(***************************************************************************)
(* The typed specification: the same Config, written with scalars of      *)
(* every modelled type (at the edges of the 8-bit and 16-bit ranges) and  *)
(* with the variants of an enum, and read back as each type.              *)
(***************************************************************************)
AddrN == <<"n">>

AddrN0 == <<"n", ".", "0">>

TypedAddrs == {FromStr(AddrN), FromStr(AddrN0)}

I8 == TInt(TRUE, 8)

U8 == TInt(FALSE, 8)

I16 == TInt(TRUE, 16)

U16 == TInt(FALSE, 16)

IntTypes == {I8, U8, I16, U16}

IntOf(T, n) == VInt(T.signed, T.bits, n)

IntVals ==
    {IntOf(I8, n) : n \in {0 - 128, 0 - 1, 8, 127}}
    \cup {IntOf(U8, n) : n \in {0, 255}}
    \cup {IntOf(I16, n) : n \in {0 - 32768, 0 - 129, 128, 32767}}
    \cup {IntOf(U16, n) : n \in {256, 65535}}

ScalarVals ==
    IntVals
    \cup {VBool(TRUE), VBool(FALSE), VChar("c"), VChar("7")}
    \cup {VStr(<<"s", "t", "r">>), VStr(<<>>)}

\* enum Complex { A, B(String), C(String, u8), D { a: String },
\*                E { a: String, b: u8 } }
TComplex ==
    TEnum((<<"A">> :> UnitForm)
          @@ (<<"B">> :> NewtypeForm(TString))
          @@ (<<"C">> :> TupleForm(<<TString, U8>>))
          @@ (<<"D">> :> StructForm(<<"a">> :> TString))
          @@ (<<"E">> :> StructForm((<<"a">> :> TString) @@ (<<"b">> :> U8))))

EnumVals ==
    {VUnitVariant(<<"A">>),
     VNewtypeVariant(<<"B">>, VStr(<<"B">>)),
     VTupleVariant(<<"C">>, <<VStr(<<"C">>), IntOf(U8, 7)>>),
     VStructVariant(<<"D">>, <<"a">> :> VStr(<<"A">>)),
     VStructVariant(<<"E">>, (<<"a">> :> VStr(<<"a">>)) @@ (<<"b">> :> IntOf(U8, 2)))}

\* trees that are not the encoding of any variant of Complex, written as
\* a &Value: a Table of no key and of two keys, an Array, and one-key
\* Tables whose payload has another shape than the variant's form
MalformedVals ==
    {VValue(ValueTable),
     VValue(Table((<<"A">> :> Entry(<<"x">>)) @@ (<<"B">> :> Entry(<<"B">>)))),
     VValue(Array(<<Entry(<<"A">>)>>)),
     VValue(Table(<<"C">> :> Entry(<<"C">>))),
     VValue(Table(<<"C">> :> Table((<<"0">> :> Entry(<<"C">>)) @@ (<<"1">> :> Entry(<<"7">>))))),
     VValue(Table(<<"E">> :> Entry(<<"a">>))),
     VValue(Table(<<"E">> :> Array(<<Entry(<<"a">>), Entry(<<"2">>)>>)))}

\* Vec<String>, (char, String, u8, bool), HashMap<String, Vec<String>>,
\* HashMap<u8, String> and struct A { one: String, two: u8 }
TVecString == TSeq(TString)

TTuple4 == TTuple(<<TChar, TString, U8, TBool>>)

TMapOfVec == TMap(TString, TVecString)

TMapByInt == TMap(U8, TString)

TStructA ==
    TStruct(<<<<"o">>, <<"t">>>>, (<<"o">> :> TString) @@ (<<"t">> :> U8))

CollectionTypes == {TVecString, TTuple4, TMapOfVec, TMapByInt, TStructA}

CollectionVals ==
    {VSeq(TString, <<VStr(<<"h">>), VStr(<<"w">>)>>),
     VTuple(<<VChar("a"), VStr(<<"b">>), IntOf(U8, 3), VBool(FALSE)>>),
     VMap(TString, TVecString,
          {<<VStr(<<"a">>), VSeq(TString, <<VStr(<<"h">>), VStr(<<"w">>)>>)>>,
           <<VStr(<<"b">>), VSeq(TString, <<>>)>>}),
     VMap(U8, TString, {<<IntOf(U8, 1), VStr(<<"x">>)>>}),
     VStruct(<<<<"o">>, <<"t">>>>,
             (<<"o">> :> VStr(<<"f">>)) @@ (<<"t">> :> IntOf(U8, 42)))}

TypedVals == ScalarVals \cup EnumVals \cup MalformedVals \cup CollectionVals \cup {VUnit}

Types == IntTypes \cup {TString, TBool, TChar, TComplex} \cup CollectionTypes

NextTyped ==
    \/ \E a \in TypedAddrs, val \in TypedVals : Set(a, val)
    \/ \E a \in TypedAddrs, T \in Types : Get(a, T)

SpecTyped == Init /\ [][NextTyped]_vars

(***************************************************************************)
(* The file specification: a Config that is written, saved to a path and  *)
(* loaded from a path.  The paths have no extension, an extension that is *)
(* not a format, a dot that begins or ends the file name, a dot in a      *)
(* directory name only, or a recognised extension.                        *)
(***************************************************************************)
PathNone == <<"c">>

PathTxt == <<"c", ".", "t", "x", "t">>

PathDot == <<"c", ".">>

PathHidden == <<".", "t", "o", "m", "l">>

PathDirDot == <<"a", ".", "y", "m", "l", "/", "c">>

PathUpper == <<"c", ".", "T", "O", "M", "L">>

PathToml == <<"c", ".", "t", "o", "m", "l">>

PathYml == <<"a", "/", "c", ".", "y", "m", "l">>

Paths == {PathNone, PathTxt, PathDot, PathHidden, PathDirDot, PathUpper, PathToml, PathYml}

FileAddrs == {FromStr(AddrS), FromStr(AddrS0)}

\* Config::load(path): the Config the caller holds is the one loaded
Load(path) ==
    /\ LET r == FileLoad(path, disk)
       IN  /\ root' = IF r.ok THEN r.v ELSE root
           /\ res' = [ok |-> r.ok, err |-> r.err, v |-> VUnit, io |-> r.io]
    /\ pre' = root
    /\ op' = "load"
    /\ key' = FromStr(path)
    /\ arg' = VUnit
    /\ UNCHANGED <<nsets, disk>>

\* cfg.save(path)
Save(path) ==
    /\ LET r == FileSave(path, root, disk)
       IN  /\ disk' = r.files
           /\ res' = [ok |-> r.ok, err |-> r.err, v |-> VUnit, io |-> r.io]
    /\ pre' = root
    /\ op' = "save"
    /\ key' = FromStr(path)
    /\ arg' = VUnit
    /\ UNCHANGED <<root, nsets>>

NextFile ==
    \/ \E a \in FileAddrs : Set(a, ValX)
    \/ \E path \in Paths : Load(path)
    \/ \E path \in Paths : Save(path)

SpecFile == Init /\ [][NextFile]_vars

(***************************************************************************)
(* The root specification: a Config written at several keys of the root,  *)
(* among them keys that are integer text, with an address given as a      *)
(* usize, and with an index named with a leading zero.                    *)
(***************************************************************************)
FromUsize(n) == [from |-> "usize", n |-> n]

AddrT == <<"t">>

AddrU == <<"u">>

AddrT0 == <<"t", ".", "0">>

AddrT1 == <<"t", ".", "1">>

AddrT00 == <<"t", ".", "0", "0">>

AddrTa == <<"t", ".", "a">>

AddrT9 == <<"t", ".", "9">>

AddrT0a == <<"t", ".", "0", ".", "a">>

Addr5 == <<"5">>

Addr50 == <<"5", ".", "0">>

Addr5a == <<"5", ".", "a">>

RootAddrs ==
    {FromStr(a) : a \in {AddrT, AddrU, AddrT0, AddrT1, AddrT00, AddrTa, AddrT9,
                         AddrT0a, Addr5, Addr50, Addr5a}}
    \cup {FromUsize(7)}

NextRoot ==
    \/ \E a \in RootAddrs, val \in {ValX, ValY} : Set(a, val)
    \/ \E a \in RootAddrs : Get(a, TString)

SpecRoot == Init /\ [][NextRoot]_vars

(***************************************************************************)
(* The rewrite specification: a Config on which a caller also sets one    *)
(* path twice in a row, as test_ipv4 does.                                 *)
(***************************************************************************)
ValSeq == VSeq(TString, <<VStr(<<"x">>)>>)

TwiceVals == {ValX, ValY, ValSeq}

\* cfg.set(a, v1) followed by cfg.set(a, v2): first is the outcome of the
\* first call, res that of the second
SetTwice(a, v1, v2) ==
    /\ nsets + 2 <= MaxSets
    /\ \E r1 \in {ConfigSet(root, IntoKey(a), v1)} :
       \E r2 \in {ConfigSet(r1.node, IntoKey(a), v2)} :
           /\ root' = r2.node
           /\ res' = [ok |-> r2.ok, err |-> r2.err, v |-> VUnit,
                      first |-> [ok |-> r1.ok, err |-> r1.err, node |-> r1.node, val |-> v1]]
    /\ pre' = root
    /\ op' = "set2"
    /\ key' = a
    /\ arg' = v2
    /\ nsets' = nsets + 2
    /\ UNCHANGED disk

NextTwice ==
    \/ \E a \in RootAddrs, val \in TwiceVals : Set(a, val)
    \/ \E a \in RootAddrs, v1 \in TwiceVals, v2 \in TwiceVals : SetTwice(a, v1, v2)

SpecTwice == Init /\ [][NextTwice]_vars

(***************************************************************************)
(* The index specification: a Config written at the indices of an Array   *)
(* and of an Array in it, among them usize::MAX, the number after it, and *)
(* indices written with a sign.                                            *)
(***************************************************************************)
AddrSMax == <<"s", ".">> \o UsizeMaxText

AddrSOver ==
    <<"s", ".", "1", "8", "4", "4", "6", "7", "4", "4", "0", "7",
      "3", "7", "0", "9", "5", "5", "1", "6", "1", "6">>

AddrSMinus == <<"s", ".", "-", "1">>

AddrSPlus == <<"s", ".", "+", "1">>

AddrSIn0 == <<"s", ".", "0", ".", "0">>

AddrSIn1 == <<"s", ".", "0", ".", "1">>

AddrSIn2 == <<"s", ".", "1", ".", "2">>

IndexAddrs ==
    {FromStr(a) : a \in {AddrS, AddrS0, AddrS1, AddrS2, AddrSMax, AddrSOver,
                         AddrSMinus, AddrSPlus, AddrSIn0, AddrSIn1, AddrSIn2}}

NextIndex ==
    \/ \E a \in IndexAddrs, val \in Vals : Set(a, val)
    \/ \E a \in IndexAddrs : Get(a, TString)

SpecIndex == Init /\ [][NextIndex]_vars

(***************************************************************************)
(* The key specification: a Key made from an address and the calls of     *)
(* peek and next on it.  Here key is the Key itself, pre the segments it  *)
(* held before the last call, res the Option that call returned, arg what *)
(* the call before it returned when that was a peek, and nsets the number *)
(* of peeks since the last next.                                           *)
(***************************************************************************)
KeyAddrs ==
    {FromStr(a) : a \in {AddrEmpty, AddrS, AddrS0, AddrSa, AddrSab, AddrS0a, AddrS00,
                         AddrT, AddrU, AddrT0a, AddrT00, Addr5, Addr50, Addr5a, AddrSMax,
                         <<".">>, <<"s", ".", ".", "a">>, <<"s", ".">>}}
    \cup {FromUsize(0), FromUsize(12), FromKey(<<>>)}

\* Key::from(address)
InitKey ==
    /\ key \in {FromKey(IntoKey(a)) : a \in KeyAddrs}
    /\ pre = key.k
    /\ op = "key"
    /\ res = None
    /\ arg = None
    /\ nsets = 0
    /\ root = EmptyMap
    /\ disk = EmptyMap

\* what a call right after a peek knows of it
Peeked == IF op = "peek" THEN Some(res) ELSE None

\* key.peek(): &self, the Key is not changed
Peek ==
    /\ nsets < MaxSets
    /\ res' = KeyPeek(key.k)
    /\ pre' = key.k
    /\ op' = "peek"
    /\ arg' = Peeked
    /\ nsets' = nsets + 1
    /\ UNCHANGED <<key, root, disk>>

\* key.next(): &mut self
NextSegment ==
    /\ LET nx == KeyNext(key.k)
       IN  /\ res' = nx.item
           /\ key' = FromKey(nx.rest)
    /\ pre' = key.k
    /\ op' = "next"
    /\ arg' = Peeked
    /\ nsets' = 0
    /\ UNCHANGED <<root, disk>>

NextKey == Peek \/ NextSegment

SpecKey == InitKey /\ [][NextKey]_vars

(***************************************************************************)
(* Vocabulary of the properties.                                           *)
(***************************************************************************)
\* the Key of the last call
K == IntoKey(key)

Front(k) == SubSeq(k, 1, Len(k) - 1)

Last(k) == k[Len(k)]

Prefix(k, n) == SubSeq(k, 1, n)

IsIndex(seg) == ParseUsize(seg).ok

IndexOf(seg) == ParseUsize(seg).n

RECURSIVE NodeAt(_, _)
\* the node that the segments of k lead to from v, if there is one
NodeAt(v, k) ==
    IF k = <<>> THEN Some(v)
    ELSE CASE v.kind = "Entry" -> None
           [] v.kind = "Array" ->
                IF IsIndex(Head(k)) /\ IndexOf(Head(k)) < Len(v.items)
                THEN NodeAt(v.items[IndexOf(Head(k)) + 1], Tail(k))
                ELSE None
           [] v.kind = "Table" ->
                IF Head(k) \in DOMAIN v.map THEN NodeAt(v.map[Head(k)], Tail(k))
                ELSE None

\* the node at k before and after the last call
Before(k) == NodeAt(Table(pre), k)

After(k) == NodeAt(Table(root), k)

IsKind(node, kind) == node.some /\ node.v.kind = kind

\* the last call was a set of a value the encoder accepts, on a key with
\* at least one segment
SetOfValue == op = "set" /\ K # <<>> /\ Encode(arg).ok

\* get::<String> of the last call's key returns the text that was written
ReadsBack == ConfigGet(root, K, TString) = GetOk(arg)

RECURSIVE GapIndex(_, _)
\* Following k from v as set does (a missing child is a new Entry, an
\* Entry becomes an empty container): the first index that an Array of
\* length n meets with index > n, as Some(text of index), or None
GapIndex(v, k) ==
    LET head == Head(k)
        below(child) == IF Tail(k) = <<>> THEN None ELSE GapIndex(child, Tail(k))
        n == IF v.kind = "Array" THEN Len(v.items) ELSE 0
    IN  CASE v.kind = "Table" ->
                below(IF head \in DOMAIN v.map THEN v.map[head] ELSE ValueEntry)
          [] v.kind \in {"Entry", "Array"} ->
                IF ~IsIndex(head) THEN below(ValueEntry)
                ELSE IF IndexOf(head) > n THEN Some(NatToText(IndexOf(head)))
                ELSE IF IndexOf(head) = n THEN below(ValueEntry)
                ELSE below(v.items[IndexOf(head) + 1])

(***************************************************************************)
(* C1  Array growth is strictly sequential.  A set of an encodable value  *)
(* fails exactly when, on its way, an Array of length n is reached with   *)
(* an index i > n, and then with the invalid-index error for i; with      *)
(* i <= n at every Array it succeeds, and get of the path returns the     *)
(* value written.                                                          *)
(***************************************************************************)
C1_SequentialGrowth ==
    SetOfValue =>
        LET gap == GapIndex(Table(pre), K)
        IN  /\ res.ok <=> ~gap.some
            /\ gap.some => res.err = Err("invalid index", gap.v)
            /\ res.ok => ReadsBack

\* set("s.2", z) succeeds on an Array s of length 2 and get("s.2") is z
C1_Witness ==
    /\ SetOfValue /\ key = FromStr(AddrS2) /\ res.ok
    /\ IsKind(Before(<<AddrS>>), "Array") /\ Len(Before(<<AddrS>>).v.items) = 2
    /\ ConfigGet(root, KeyFromStr(AddrS2), TString) = GetOk(arg)

(***************************************************************************)
(* C2  A terminal set at index i < n of an Array of length n.             *)
(***************************************************************************)
\* the last call was a successful set whose last segment is an index
\* below the length of the Array its other segments lead to
TerminalIndexWrite ==
    /\ SetOfValue /\ res.ok
    /\ IsKind(Before(Front(K)), "Array")
    /\ IsIndex(Last(K))
    /\ IndexOf(Last(K)) < Len(Before(Front(K)).v.items)

C3_RejectedValueLeavesTree ==
    (op = "set" /\ ~Encode(arg).ok) =>
        /\ ~res.ok
        /\ root = pre
        /\ ConfigGet(root, K, TString) = ConfigGet(pre, K, TString)

(***************************************************************************)
(* C4  get and set with an empty path (a Key with no segments, or the     *)
(* empty address string) return an error, do not abort, and set leaves    *)
(* the tree unchanged.                                                     *)
(***************************************************************************)
C4_EmptyPathIsError ==
    (/\ op \in {"set", "get"}
     /\ K = <<>> \/ key = FromStr(AddrEmpty)
     /\ op = "set" => Encode(arg).ok) =>
        /\ ~res.ok
        /\ res.err.e # "panic"
        /\ op = "set" => root = pre

(***************************************************************************)
(* C7  Nested auto-creation.  On an empty root a set of a path of two or  *)
(* more segments, none of them an index, succeeds; every proper prefix of *)
(* the path then leads to a Table and get of the path returns the value.  *)
(***************************************************************************)
C7_NestedAutoCreation ==
    (SetOfValue /\ pre = EmptyMap /\ Len(K) >= 2
                /\ \A i \in 1..Len(K) : ~IsIndex(K[i])) =>
        /\ res.ok
        /\ \A n \in 1..(Len(K) - 1) : IsKind(After(Prefix(K, n)), "Table")
        /\ ReadsBack

\* set("s.a.b", v) on the empty root
C7_Witness ==
    /\ SetOfValue /\ pre = EmptyMap /\ key = FromStr(AddrSab) /\ res.ok
    /\ IsKind(After(<<AddrS>>), "Table")
    /\ IsKind(After(<<AddrS, <<"a">>>>), "Table")

(***************************************************************************)
(* C8  Promotion of a scalar.  When a successful set passes through a     *)
(* location that holds an Entry, the location becomes an Array if the     *)
(* next segment parses as an index and a Table otherwise, and get of the  *)
(* written path returns the written value.                                *)
(***************************************************************************)
C8_ScalarPromotion ==
    (SetOfValue /\ res.ok) =>
        \A n \in 1..(Len(K) - 1) :
            IsKind(Before(Prefix(K, n)), "Entry") =>
                /\ IsKind(After(Prefix(K, n)),
                          IF IsIndex(K[n + 1]) THEN "Array" ELSE "Table")
                /\ ReadsBack

\* s holds the text of an earlier set and set("s.0", v) makes it an Array
C8_Witness ==
    /\ SetOfValue /\ res.ok /\ key = FromStr(AddrS0)
    /\ IsKind(Before(<<AddrS>>), "Entry") /\ Before(<<AddrS>>).v.text # <<>>
    /\ IsKind(After(<<AddrS>>), "Array")

(***************************************************************************)
(* C9  Array-to-Table promotion keeps the elements.                       *)
(***************************************************************************)
\* the last call was a successful set that met, after n segments, an
\* Array with a next segment that is not an index
Rekeyed(n) ==
    /\ SetOfValue /\ res.ok
    /\ n \in 1..(Len(K) - 1)
    /\ IsKind(Before(Prefix(K, n)), "Array")
    /\ ~IsIndex(K[n + 1])

\* the node is now a Table that holds element i under the decimal text of
\* i, for every i, and besides only the key just written
HoldsElements(n) ==
    LET old == Before(Prefix(K, n)).v.items
        new == After(Prefix(K, n))
    IN  /\ IsKind(new, "Table")
        /\ DOMAIN new.v.map = {NatToText(i) : i \in 0..(Len(old) - 1)} \cup {K[n + 1]}
        /\ \A i \in 0..(Len(old) - 1) : new.v.map[NatToText(i)] = old[i + 1]

\* the get paths of the model that pass through an element of that Array
ThroughElement(n) ==
    {a \in Addrs :
        LET q == IntoKey(a)
        IN  /\ Len(q) > n
            /\ Prefix(q, n) = Prefix(K, n)
            /\ IsIndex(q[n + 1])
            /\ IndexOf(q[n + 1]) < Len(Before(Prefix(K, n)).v.items)}

SameAnswer(a) ==
    ConfigGet(root, IntoKey(a), TString) = ConfigGet(pre, IntoKey(a), TString)

\* C9 as claimed: every get path that went through an element returns
\* the same result afterwards
C9_EveryPathKept ==
    \A n \in 1..Len(K) :
        Rekeyed(n) =>
            /\ HoldsElements(n)
            /\ \A a \in ThroughElement(n) : SameAnswer(a)

\* C9 amended: every get path that went through an element and names its
\* index in decimal text without sign or leading zeros returns the same
\* result afterwards
C9_CanonicalPathKept ==
    \A n \in 1..Len(K) :
        Rekeyed(n) =>
            /\ HoldsElements(n)
            /\ \A a \in ThroughElement(n) :
                 IntoKey(a)[n + 1] = NatToText(IndexOf(IntoKey(a)[n + 1])) => SameAnswer(a)

\* set("s.a", v) on an Array s of length 2; get("s.0") answered before
C9_Witness ==
    /\ Rekeyed(1) /\ key = FromStr(AddrSa)
    /\ Len(Before(<<AddrS>>).v.items) = 2
    /\ ConfigGet(pre, KeyFromStr(AddrS0), TString).ok
    /\ ConfigGet(root, KeyFromStr(AddrS0), TString).ok

(***************************************************************************)
(* Vocabulary of the typed properties.                                     *)
(***************************************************************************)
\* the type a scalar value has at the call site
TypeOf(val) ==
    CASE val.ty = "bool" -> TBool
      [] val.ty = "int" -> TInt(val.signed, val.bits)
      [] val.ty = "char" -> TChar
      [] val.ty = "str" -> TString

\* the Display text of a scalar
CanonicalText(val) ==
    CASE val.ty = "bool" -> BoolToText(val.b)
      [] val.ty = "int" -> IntToText(val.n)
      [] val.ty = "char" -> <<val.c>>
      [] val.ty = "str" -> val.s

IsScalar(val) == val.ty \in {"bool", "int", "char", "str"}

InRange(T, n) == IntMin(T.signed, T.bits) <= n /\ n <= IntMax(T.signed, T.bits)

(***************************************************************************)
(* C5  Scalar round trip.  After a successful set(p, v) of a boolean, an  *)
(* integer, a character or a string, get::<String>(p) returns the         *)
(* canonical text of v and get::<T>(p), T the type of v, returns v.       *)
(***************************************************************************)
C5_ScalarRoundTrip ==
    (op = "set" /\ res.ok /\ IsScalar(arg)) =>
        /\ ConfigGet(root, K, TString) = GetOk(VStr(CanonicalText(arg)))
        /\ ConfigGet(root, K, TypeOf(arg)) = GetOk(arg)

\* set("n.0", -128_i8): the text is "-128" and get::<i8> returns -128
C5_Witness ==
    /\ op = "set" /\ res.ok /\ key = FromStr(AddrN0)
    /\ arg = IntOf(I8, 0 - 128)
    /\ ConfigGet(root, K, TString) = GetOk(VStr(<<"-", "1", "2", "8">>))
    /\ ConfigGet(root, K, I8) = GetOk(IntOf(I8, 0 - 128))

(***************************************************************************)
(* C6  Cross-type integer read.  After a successful set(p, v) of an       *)
(* integer, get::<T>(p) for an integer type T returns v when v is in the  *)
(* range of T and an error when it is not; get::<String>(p) returns the   *)
(* decimal text of v.                                                      *)
(***************************************************************************)
C6_CrossTypeRead ==
    (op = "set" /\ res.ok /\ arg.ty = "int") =>
        /\ \A T \in IntTypes :
             IF InRange(T, arg.n)
             THEN ConfigGet(root, K, T) = GetOk(IntOf(T, arg.n))
             ELSE ~ConfigGet(root, K, T).ok
        /\ ConfigGet(root, K, TString) = GetOk(VStr(IntToText(arg.n)))

\* set("n", 128_i16): i16 and u8 and u16 read 128, i8 reports an error
C6_Witness ==
    /\ op = "set" /\ res.ok /\ key = FromStr(AddrN)
    /\ arg = IntOf(I16, 128)
    /\ ConfigGet(root, K, U8) = GetOk(IntOf(U8, 128))
    /\ ~ConfigGet(root, K, I8).ok
    /\ ConfigGet(root, K, TString) = GetOk(VStr(<<"1", "2", "8">>))

(***************************************************************************)
(* C10  Variant round trip.  After a successful set(p, e) of an enum      *)
(* value of any of the four forms, get of the enum type at p returns a    *)
(* value equal to e.                                                       *)
(***************************************************************************)
C10_VariantRoundTrip ==
    (op = "set" /\ res.ok /\ arg.ty = "enum") =>
        ConfigGet(root, K, TComplex) = GetOk(arg)

\* set("n", Complex::E { a, b }) and get::<Complex>("n") returns it
C10_Witness ==
    /\ op = "set" /\ res.ok /\ key = FromStr(AddrN)
    /\ arg.ty = "enum" /\ arg.form = "struct" /\ arg.name = <<"E">>
    /\ ConfigGet(root, K, TComplex) = GetOk(arg)

(***************************************************************************)
(* C11  Variant encoding shape.  After a successful set(p, e) of an enum  *)
(* value the node at p is: for a content-less variant an Entry holding    *)
(* the variant name; otherwise a Table whose only key is the variant name *)
(* and whose value is the encoded payload (single payload), an Array of   *)
(* the payloads in order (ordered payloads) or a Table of the named       *)
(* payloads; and get of p.Name, p.Name.i, p.Name.field returns the part.  *)
(***************************************************************************)
\* get of the path, as the type of the part, returns the part
ReadsPart(path, part) == ConfigGet(root, path, TypeOf(part)) = GetOk(part)

\* the node is a Table whose only key is the variant name
OneKeyTable(node, name) == node.kind = "Table" /\ DOMAIN node.map = {name}

C11_VariantShape ==
    (op = "set" /\ res.ok /\ arg.ty = "enum") =>
        /\ After(K).some
        /\ LET node == After(K).v
               name == arg.name
           IN  CASE arg.form = "unit" ->
                      /\ node = Entry(name)
                      /\ ConfigGet(root, K, TString) = GetOk(VStr(name))
                 [] arg.form = "newtype" ->
                      /\ OneKeyTable(node, name)
                      /\ node.map[name] = Encode(arg.payload).v
                      /\ ReadsPart(K \o <<name>>, arg.payload)
                 [] arg.form = "tuple" ->
                      /\ OneKeyTable(node, name)
                      /\ node.map[name].kind = "Array"
                      /\ Len(node.map[name].items) = Len(arg.elems)
                      /\ \A i \in 1..Len(arg.elems) :
                           ReadsPart(K \o <<name, NatToText(i - 1)>>, arg.elems[i])
                 [] arg.form = "struct" ->
                      /\ OneKeyTable(node, name)
                      /\ node.map[name].kind = "Table"
                      /\ DOMAIN node.map[name].map = DOMAIN arg.fields
                      /\ \A f \in DOMAIN arg.fields :
                           ReadsPart(K \o <<name, f>>, arg.fields[f])

\* set("n", Complex::C("C", 7)): get::<u8>("n.C.1") returns 7
C11_Witness ==
    /\ op = "set" /\ res.ok /\ key = FromStr(AddrN)
    /\ arg.ty = "enum" /\ arg.form = "tuple"
    /\ After(K).v.map[<<"C">>].kind = "Array"
    /\ ConfigGet(root, <<AddrN, <<"C">>, <<"1">>>>, U8) = GetOk(IntOf(U8, 7))

(***************************************************************************)
(* C12  A value that carries no data is rejected.  set(p, unit) returns   *)
(* an error for every path p (here: of non-empty segments) and stores no  *)
(* node: no prefix of p leads to a node after the call that it did not    *)
(* lead to before.                                                         *)
(***************************************************************************)
C12_UnitRejected ==
    (op = "set" /\ arg = VUnit /\ \A i \in 1..Len(K) : K[i] # <<>>) =>
        /\ ~res.ok
        /\ \A n \in 1..Len(K) : After(Prefix(K, n)).some => Before(Prefix(K, n)).some

(***************************************************************************)
(* C13  get error cases.  Where the path of a get reaches a Table with a  *)
(* segment that is not one of its keys, the get returns the missing-key   *)
(* error for the segment; where it reaches an Array with a segment that   *)
(* does not parse as an index, the invalid-key error for the segment, and *)
(* with an index at or past the length, the missing-key error for the     *)
(* index.  The result is an error, never a default value.                 *)
(***************************************************************************)
C13_GetErrors ==
    (op = "get" /\ K # <<>>) =>
        \A n \in 0..(Len(K) - 1) :
            LET at == Before(Prefix(K, n))
                seg == K[n + 1]
            IN  at.some =>
                  /\ (at.v.kind = "Table" /\ seg \notin DOMAIN at.v.map) =>
                        res = GetFail(Err("missing value for key", seg))
                  /\ (at.v.kind = "Array" /\ ~IsIndex(seg)) =>
                        res = GetFail(Err("invalid key", seg))
                  /\ (at.v.kind = "Array" /\ IsIndex(seg)
                                          /\ IndexOf(seg) >= Len(at.v.items)) =>
                        res = GetFail(Err("missing value for key", NatToText(IndexOf(seg))))

\* get("s.2") on an Array s of length 2
C13_Witness ==
    /\ op = "get" /\ key = FromStr(AddrS2)
    /\ IsKind(Before(<<AddrS>>), "Array") /\ Len(Before(<<AddrS>>).v.items) = 2
    /\ ~res.ok /\ res.err = Err("missing value for key", <<"2">>)

(***************************************************************************)
(* C14  Malformed variant encodings are rejected.  get of an enum type    *)
(* at a node that is a Table of no key or of more than one key, an Array, *)
(* or a one-key Table whose payload is a Table or an Entry for a variant  *)
(* of ordered payloads, or an Array or an Entry for a variant of named    *)
(* payloads, returns an error and no variant.                             *)
(***************************************************************************)
\* the node is not the encoding of a variant of the enum T
Malformed(T, node) ==
    \/ node.kind = "Array"
    \/ node.kind = "Table" /\ Cardinality(DOMAIN node.map) # 1
    \/ /\ node.kind = "Table"
       /\ \E name \in DOMAIN node.map \cap DOMAIN T.variants :
            \/ /\ T.variants[name].form = "tuple"
               /\ node.map[name].kind \in {"Table", "Entry"}
            \/ /\ T.variants[name].form = "struct"
               /\ node.map[name].kind \in {"Array", "Entry"}

C14_MalformedVariantRejected ==
    (op = "get" /\ arg = TComplex /\ Before(K).some /\ Malformed(TComplex, Before(K).v)) =>
        /\ ~res.ok
        /\ res.v = VUnit

\* get::<Complex>("n") where n is a Table of two keys
C14_Witness ==
    /\ op = "get" /\ arg = TComplex /\ key = FromStr(AddrN)
    /\ IsKind(Before(K), "Table") /\ Cardinality(DOMAIN Before(K).v.map) = 2
    /\ res = GetFail(Err("invalid value", <<"Table">>))

(***************************************************************************)
(* C15  A scalar requested from a container.  get of a boolean, an        *)
(* integer, a character or a string at a node that is an Array or a Table *)
(* returns the type-mismatch error for the kind of the node; and after a  *)
(* successful set promoted a location from Entry to Array or Table, get   *)
(* of every scalar type at that location returns that error.              *)
(***************************************************************************)
ScalarTypes == IntTypes \cup {TString, TBool, TChar}

C15_ScalarFromContainer ==
    /\ (op = "get" /\ arg \in ScalarTypes /\ Before(K).some
                   /\ Before(K).v.kind \in {"Array", "Table"}) =>
            res = Mismatch(Before(K).v)
    /\ (op = "set" /\ res.ok) =>
            \A n \in 1..(Len(K) - 1) :
                IsKind(Before(Prefix(K, n)), "Entry") =>
                    \A T \in ScalarTypes :
                        /\ After(Prefix(K, n)).v.kind \in {"Array", "Table"}
                        /\ ConfigGet(root, Prefix(K, n), T) = Mismatch(After(Prefix(K, n)).v)

\* n holds a text, set("n.0", v) makes it an Array, get::<String>("n") fails
C15_Witness ==
    /\ op = "set" /\ res.ok /\ key = FromStr(AddrN0)
    /\ IsKind(Before(<<AddrN>>), "Entry") /\ Before(<<AddrN>>).v.text # <<>>
    /\ ConfigGet(pre, <<AddrN>>, TString).ok
    /\ ConfigGet(root, <<AddrN>>, TString) = Mismatch(ValueArray)

(***************************************************************************)
(* C16  A terminal write replaces the node wholesale.  When set(p, v)     *)
(* succeeds and p led to a node before (an Entry, an Array or a Table),   *)
(* the node at p afterwards is exactly the encoding of v, and get of      *)
(* every path strictly below p that the encoding of v does not contain    *)
(* returns an error.                                                       *)
(***************************************************************************)
\* the segments of q after the first n
Suffix(q, n) == SubSeq(q, n + 1, Len(q))

\* the paths of the model strictly below the path k
Below(k) ==
    {q \in {IntoKey(a) : a \in Addrs} : Len(q) > Len(k) /\ Prefix(q, Len(k)) = k}

C16_TerminalWriteReplaces ==
    (SetOfValue /\ res.ok /\ Before(K).some) =>
        /\ After(K) = Some(Encode(arg).v)
        /\ \A q \in Below(K) :
             ~NodeAt(Encode(arg).v, Suffix(q, Len(K))).some =>
                 ~ConfigGet(root, q, TString).ok

\* s is a Table with the key a; set("s", v) leaves an Entry and get("s.a")
\* answered before and fails after
C16_Witness ==
    /\ SetOfValue /\ res.ok /\ key = FromStr(AddrS)
    /\ IsKind(Before(K), "Table")
    /\ ConfigGet(pre, KeyFromStr(AddrSa), TString).ok
    /\ IsKind(After(K), "Entry")
    /\ ~ConfigGet(root, KeyFromStr(AddrSa), TString).ok

(***************************************************************************)
(* C17  Every segment of the Key parsed from a dotted address string is   *)
(* non-empty, and the segments are in the order they have in the string:  *)
(* joined with dots they give the string back.                            *)
(***************************************************************************)
RECURSIVE JoinDots(_)
JoinDots(k) ==
    IF k = <<>> THEN <<>>
    ELSE IF Len(k) = 1 THEN Head(k)
    ELSE Head(k) \o <<".">> \o JoinDots(Tail(k))

C17_SegmentsNonEmpty ==
    (op \in {"set", "get"} /\ key.from = "str") =>
        /\ \A i \in 1..Len(K) : K[i] # <<>>
        /\ JoinDots(K) = key.s

(***************************************************************************)
(* C18  Collection round trip.  After a successful set(p, c) of a         *)
(* sequence, a tuple, a map or a struct, get of the type of c at p        *)
(* returns a value equal to c; the elements of a sequence or tuple are    *)
(* read at p.0, p.1, ... in the order stored, and the entries of a map or *)
(* a struct at p.key.                                                      *)
(***************************************************************************)
RECURSIVE StaticType(_)
\* the type a value has at the call site
StaticType(val) ==
    CASE val.ty \in {"bool", "int", "char", "str"} -> TypeOf(val)
      [] val.ty = "seq" -> TSeq(val.elemT)
      [] val.ty = "tuple" -> TTuple([i \in 1..Len(val.elems) |-> StaticType(val.elems[i])])
      [] val.ty = "map" -> TMap(val.keyT, val.valT)
      [] val.ty = "struct" ->
            TStruct(val.names, [f \in DOMAIN val.fields |-> StaticType(val.fields[f])])

\* get of the path, as the static type of the part, returns the part
ReadsElement(path, part) == ConfigGet(root, path, StaticType(part)) = GetOk(part)

IsCollection(val) == val.ty \in {"seq", "tuple", "map", "struct"}

C18_CollectionRoundTrip ==
    (op = "set" /\ res.ok /\ IsCollection(arg)) =>
        /\ ConfigGet(root, K, StaticType(arg)) = GetOk(arg)
        /\ arg.ty \in {"seq", "tuple"} =>
              \A i \in 1..Len(arg.elems) :
                  ReadsElement(K \o <<NatToText(i - 1)>>, arg.elems[i])
        /\ arg.ty = "map" =>
              \A e \in arg.entries :
                  ReadsElement(K \o <<CanonicalText(e[1])>>, e[2])
        /\ arg.ty = "struct" =>
              \A f \in DOMAIN arg.fields : ReadsElement(K \o <<f>>, arg.fields[f])

(***************************************************************************)
(* C19  The file loader picks the format from the extension only.  A      *)
(* load or a save on a path with no extension, or with an extension other *)
(* than json, toml, yaml or yml, returns the invalid-file-type error that *)
(* carries the extension (or its absence) and the path, makes no call on  *)
(* the file system, and leaves the files and the Config as they were.     *)
(***************************************************************************)
Recognised == {ExtJson, ExtToml, ExtYaml, ExtYml}

\* the extension as a reader of the path sees it: what follows the last
\* dot of the last component, when that dot is not the first character
NoFormat(path) ==
    LET ext == PathExtension(path) IN ~ext.some \/ ext.v \notin Recognised

C19_InvalidFileType ==
    [][(op' \in {"load", "save"} /\ NoFormat(key'.s)) =>
          /\ ~res'.ok
          /\ res'.err = InvalidFileType(PathExtension(key'.s), key'.s)
          /\ res'.io = <<>>
          /\ disk' = disk
          /\ root' = root]_vars

\* a Config with content is saved to "c.txt" while a file exists: the
\* error carries "txt" and the path
C19_Witness ==
    /\ op = "save" /\ key = FromStr(PathTxt)
    /\ root # EmptyMap /\ disk # EmptyMap
    /\ ~res.ok /\ res.err = Err("invalid file type", <<Some(<<"t", "x", "t">>), PathTxt>>)
    /\ res.io = <<>>

(***************************************************************************)
(* C20  Every get and every set ends, after a bounded number of calls of  *)
(* get or set on Value, Array and Table.                                  *)
(***************************************************************************)
RECURSIVE SumSizes(_, _)

RECURSIVE NodeCount(_)
\* the number of nodes of a subtree
NodeCount(v) ==
    CASE v.kind = "Entry" -> 1
      [] v.kind = "Array" -> 1 + SumSizes([i \in 1..Len(v.items) |-> NodeCount(v.items[i])], Len(v.items))
      [] v.kind = "Table" ->
            LET keys == DOMAIN v.map
                order == CHOOSE f \in [1..Cardinality(keys) -> keys] :
                            \A a, b \in 1..Cardinality(keys) : a # b => f[a] # f[b]
            IN  1 + SumSizes([i \in 1..Cardinality(keys) |-> NodeCount(v.map[order[i]])],
                             Cardinality(keys))

SumSizes(sizes, n) == IF n = 0 THEN 0 ELSE sizes[n] + SumSizes(sizes, n - 1)

\* C20 as claimed: the number of calls is bounded by a linear function of
\* the number of segments: at most three calls of set for each segment
\* (the call on an Entry that replaces it by a container, the call on the
\* container, and the call that consumes the segment) and one more, and
\* at most two calls of get for each segment and one more
C20_LinearInSegments ==
    /\ op = "set" =>
            LET c == ConfigSetCalls(pre, K, arg)
            IN  c.chain + c.moved <= 3 * Len(K) + 1
    /\ op = "get" => ConfigGetCalls(pre, K) <= 2 * Len(K) + 1

\* C20 amended: the calls that follow the path are bounded by that linear
\* function of the number of segments; besides them a set makes two calls
\* for each element of an Array that it moves into a Table, which is
\* bounded by the size of the tree
C20_BoundedRecursion ==
    /\ op = "set" =>
            LET c == ConfigSetCalls(pre, K, arg)
            IN  /\ 1 <= c.chain /\ c.chain <= 3 * Len(K) + 1
                /\ c.moved <= 2 * NodeCount(Table(pre))
    /\ op = "get" =>
            LET n == ConfigGetCalls(pre, K)
            IN  1 <= n /\ n <= 2 * Len(K) + 1

\* set("s.a", v) on an Array s of length 2: four calls follow the path,
\* four more move the two elements
C20_Witness ==
    /\ SetOfValue /\ res.ok /\ key = FromStr(AddrSa)
    /\ IsKind(Before(<<AddrS>>), "Array") /\ Len(Before(<<AddrS>>).v.items) = 2
    /\ ConfigSetCalls(pre, K, arg) = Calls(4, 4)

(***************************************************************************)
(* C21  A failed set leaves the tree as it was.  A set that returns an    *)
(* error leaves the whole tree equal to the tree before the call: no key  *)
(* on the way is left behind as an empty Entry and every get returns what *)
(* it returned before.  Stated for a value the encoder accepts, so that   *)
(* the error is one of the path (an invalid index at some depth, an       *)
(* invalid key).                                                           *)
(***************************************************************************)
C21_FailedSetLeavesTree ==
    (op = "set" /\ ~res.ok /\ Encode(arg).ok) =>
        /\ root = pre
        /\ \A a \in Addrs : SameAnswer(a)

(***************************************************************************)
(* C22  Promotion is committed only on success.  When a set fails below   *)
(* a node that was an Entry, or an Array met with a next segment that is  *)
(* not an index, that node is afterwards what it was before: the Entry    *)
(* keeps its text, the Array keeps its elements and stays an Array.       *)
(***************************************************************************)
\* the node after n segments was an Entry, or an Array that the next
\* segment would have turned into a Table
WouldPromote(n) ==
    LET b == Before(Prefix(K, n))
    IN  /\ b.some
        /\ \/ b.v.kind = "Entry"
           \/ b.v.kind = "Array" /\ ~IsIndex(K[n + 1])

C22_PromotionOnlyOnSuccess ==
    (op = "set" /\ ~res.ok) =>
        \A n \in 1..(Len(K) - 1) :
            WouldPromote(n) => After(Prefix(K, n)) = Before(Prefix(K, n))

\* s is an Entry of text "x" and set("s.1", v) fails on the index: s is
\* still that Entry
C22_Witness ==
    /\ op = "set" /\ ~res.ok /\ key = FromStr(AddrS1)
    /\ res.err = Err("invalid index", <<"1">>)
    /\ Before(<<AddrS>>) = Some(Entry(<<"x">>))
    /\ After(<<AddrS>>) = Some(Entry(<<"x">>))

\* s is an Array and set("s.a", unit) fails in the new Table: s is still
\* that Array
C22_WitnessArray ==
    /\ op = "set" /\ ~res.ok /\ key = FromStr(AddrSa)
    /\ IsKind(Before(<<AddrS>>), "Array") /\ Before(<<AddrS>>).v.items # <<>>
    /\ After(<<AddrS>>) = Before(<<AddrS>>)

(***************************************************************************)
(* C23  A successful set keeps what it does not address.  After a         *)
(* successful set(p, v), get(q) returns what it returned before for every *)
(* path q such that neither p is a prefix of q nor q a prefix of p.       *)
(***************************************************************************)
\* neither path is a prefix of the other
Disjoint(p, q) ==
    LET m == IF Len(p) < Len(q) THEN Len(p) ELSE Len(q)
    IN  Prefix(p, m) # Prefix(q, m)

\* get::<String> of q returns the value it returned before the call, or
\* an error where it returned an error
Kept(q) ==
    LET was == ConfigGet(pre, q, TString)
        now == ConfigGet(root, q, TString)
    IN  /\ now.ok = was.ok
        /\ was.ok => now = was

\* every index of the path is named by its decimal text, without sign or
\* leading zeros
Canonical(k) == \A i \in 1..Len(k) : IsIndex(k[i]) => k[i] = NatToText(IndexOf(k[i]))

RootPaths == {IntoKey(a) : a \in RootAddrs}

\* C23 as claimed: for every pair of paths
C23_DisjointPathsKept ==
    (SetOfValue /\ res.ok) =>
        \A q \in RootPaths : Disjoint(K, q) => Kept(q)

\* C23 amended: for the paths that name their indices in decimal text
C23_CanonicalDisjointPathsKept ==
    (SetOfValue /\ res.ok /\ Canonical(K)) =>
        \A q \in RootPaths : (Canonical(q) /\ Disjoint(K, q)) => Kept(q)

\* set("t.a", v) turns the Array t of two elements into a Table, and
\* get("t.1") and get("u") return the values they returned before
C23_Witness ==
    /\ SetOfValue /\ res.ok /\ key = FromStr(AddrTa)
    /\ IsKind(Before(<<AddrT>>), "Array") /\ Len(Before(<<AddrT>>).v.items) = 2
    /\ IsKind(After(<<AddrT>>), "Table")
    /\ ConfigGet(pre, KeyFromStr(AddrT1), TString).ok
    /\ ConfigGet(root, KeyFromStr(AddrT1), TString) = ConfigGet(pre, KeyFromStr(AddrT1), TString)

(***************************************************************************)
(* C24  Node kinds only move forward under nested writes.  After a        *)
(* successful set, every node at a proper prefix of the path has the kind *)
(* it had before or a later one in the order Entry < Array < Table; and   *)
(* a node whose kind is an earlier one than before is the node that the   *)
(* path of the set addresses (a terminal write at it), or lies below it.  *)
(***************************************************************************)
Rank(node) ==
    CASE node.kind = "Entry" -> 0
      [] node.kind = "Array" -> 1
      [] node.kind = "Table" -> 2

RECURSIVE Trail(_, _)
\* the steps that k takes from v: the key text in a Table, the decimal
\* text of the index in an Array (so that two spellings of an index are
\* one step), and the segments as they are from where k leaves the tree
Trail(v, k) ==
    IF k = <<>> THEN <<>>
    ELSE CASE v.kind = "Array" /\ IsIndex(Head(k)) /\ IndexOf(Head(k)) < Len(v.items) ->
                <<NatToText(IndexOf(Head(k)))>>
                    \o Trail(v.items[IndexOf(Head(k)) + 1], Tail(k))
           [] v.kind = "Table" /\ Head(k) \in DOMAIN v.map ->
                <<Head(k)>> \o Trail(v.map[Head(k)], Tail(k))
           [] OTHER -> k

\* the path k, followed in the tree before the call, ends at the node of
\* q or at a node above it
AtOrAbove(k, q) ==
    LET tk == Trail(Table(pre), k)
        tq == Trail(Table(pre), q)
    IN  Len(tk) <= Len(tq) /\ Prefix(tq, Len(tk)) = tk

\* the paths of the root specification and their prefixes
RootNodes == UNION {{Prefix(q, n) : n \in 1..Len(q)} : q \in RootPaths}

C24_KindsMoveForward ==
    (op = "set" /\ res.ok) =>
        /\ \A n \in 1..(Len(K) - 1) :
              Before(Prefix(K, n)).some =>
                  /\ After(Prefix(K, n)).some
                  /\ Rank(After(Prefix(K, n)).v) >= Rank(Before(Prefix(K, n)).v)
        /\ \A q \in RootNodes :
              (/\ Before(q).some /\ After(q).some
               /\ Rank(After(q).v) < Rank(Before(q).v)) => AtOrAbove(K, q)

\* set("t.0.a", v) on an Array t whose element 0 is an Entry: the element
\* becomes a Table and t stays an Array
C24_Witness ==
    /\ op = "set" /\ res.ok /\ key = FromStr(AddrT0a)
    /\ IsKind(Before(<<AddrT>>), "Array") /\ IsKind(After(<<AddrT>>), "Array")
    /\ IsKind(Before(<<AddrT, <<"0">>>>), "Entry")
    /\ IsKind(After(<<AddrT, <<"0">>>>), "Table")

(***************************************************************************)
(* C25  Last write wins and set is idempotent.  Two successful sets to    *)
(* one path p, of v1 and then of v2, leave exactly the tree that the      *)
(* single set(p, v2) makes of the tree they started from; with v1 = v2    *)
(* the second set changes nothing, the lengths of the Arrays included.    *)
(***************************************************************************)
BothSucceeded == op = "set2" /\ res.first.ok /\ res.ok

C25_LastWriteWins ==
    BothSucceeded =>
        /\ ConfigSet(pre, K, arg) = SetOk(root)
        /\ arg = res.first.val => root = res.first.node

\* t.1 is set twice on an Array t of one element, with two values: the
\* first set appends, the second overwrites, and the length is 2
C25_Witness ==
    /\ BothSucceeded /\ key = FromStr(AddrT1) /\ arg # res.first.val
    /\ IsKind(Before(<<AddrT>>), "Array") /\ Len(Before(<<AddrT>>).v.items) = 1
    /\ root # res.first.node
    /\ Len(After(<<AddrT>>).v.items) = 2

(***************************************************************************)
(* C26  A Table takes any integer text as a key.  When a set of a value   *)
(* the encoder accepts reaches a Table below the root (one that an Array  *)
(* was promoted to, for example) with a next segment that is integer      *)
(* text, no order of the indices is asked for: the node stays a Table,    *)
(* keeps its keys and holds the segment as a key; when the segment is the *)
(* last one the set succeeds and the value is stored under it.            *)
(***************************************************************************)
C26_TableTakesAnyIndex ==
    SetOfValue =>
        \A n \in 1..(Len(K) - 1) :
            (IsKind(Before(Prefix(K, n)), "Table") /\ IsIndex(K[n + 1])) =>
                LET old == Before(Prefix(K, n)).v.map
                    new == After(Prefix(K, n))
                IN  /\ IsKind(new, "Table")
                    /\ DOMAIN new.v.map = DOMAIN old \cup {K[n + 1]}
                    /\ n + 1 = Len(K) =>
                          /\ res.ok
                          /\ new.v.map[K[n + 1]] = Encode(arg).v
                          /\ \A j \in DOMAIN old : j # K[n + 1] => new.v.map[j] = old[j]

\* t holds the keys "0" and "a" (an Array of one element that set("t.a")
\* turned into a Table); set("t.9", v) succeeds and stores v under "9"
C26_Witness ==
    /\ SetOfValue /\ res.ok /\ key = FromStr(AddrT9)
    /\ IsKind(Before(<<AddrT>>), "Table")
    /\ DOMAIN Before(<<AddrT>>).v.map = {<<"0">>, <<"a">>}
    /\ After(<<AddrT>>).v.map[<<"9">>] = Encode(arg).v

(***************************************************************************)
(* C27  The root of a Config is a Table in every reachable state.  The    *)
(* root is a map from the first segments of the paths written to nodes,   *)
(* whatever those segments are; a set does not remove a key of the root;  *)
(* and a first segment that is integer text is a key like any other, so   *)
(* that a set of one segment of a value the encoder accepts succeeds and  *)
(* stores the value under it, whatever indices the root holds.            *)
(***************************************************************************)
C27_RootIsTable ==
    /\ DOMAIN root \subseteq {q[1] : q \in RootPaths}
    /\ (op = "set" /\ K # <<>>) => DOMAIN root = DOMAIN pre \cup {K[1]}
    /\ (SetOfValue /\ Len(K) = 1) =>
          /\ res.ok
          /\ root = MapPut(pre, K[1], Encode(arg).v)

\* set("5", v) on an empty Config succeeds: the root holds the key "5"
C27_Witness ==
    /\ SetOfValue /\ res.ok /\ key = FromStr(Addr5)
    /\ pre = EmptyMap
    /\ DOMAIN root = {<<"5">>}
    /\ ConfigGet(root, KeyFromStr(Addr5), TString) = GetOk(arg)

(***************************************************************************)
(* C28  Array::set never goes out of bounds.  No set on any tree with any *)
(* segment aborts the process: a vector insert is reached only at a       *)
(* position that is at most the length, and index - 1 is evaluated only   *)
(* for an index of 1 or more.  A set fails only with a returned error.    *)
(***************************************************************************)
\* the errors that Array::set, Table::set, Value::set and the encoder
\* return
ReturnedErrors == {"empty key", "invalid key", "invalid index", "unsupported value"}

C28_NoAbort ==
    op = "set" =>
        /\ res.err.e # "panic"
        /\ ~res.ok => res.err.e \in ReturnedErrors
        /\ \A n \in 1..(Len(K) - 1) :
              (res.ok /\ IsKind(After(Prefix(K, n)), "Array") /\ IsKind(Before(Prefix(K, n)), "Array")) =>
                  /\ Len(After(Prefix(K, n)).v.items) <= Len(Before(Prefix(K, n)).v.items) + 1
                  /\ IndexOf(K[n + 1]) < Len(After(Prefix(K, n)).v.items)

\* set("s.1", v) on an Array s of one element inserts at position 1, the
\* length of the vector
C28_Witness ==
    /\ op = "set" /\ res.ok /\ key = FromStr(AddrS1)
    /\ IsKind(Before(<<AddrS>>), "Array") /\ Len(Before(<<AddrS>>).v.items) = 1
    /\ Len(After(<<AddrS>>).v.items) = 2

\* set("s.18446744073709551615", v) on an Array: the index is usize::MAX,
\* its predecessor does not exist and the set returns the invalid-index
\* error
C28_WitnessMax ==
    /\ op = "set" /\ ~res.ok /\ key = FromStr(AddrSMax)
    /\ IsKind(Before(<<AddrS>>), "Array")
    /\ res.err.e = "invalid index"

(***************************************************************************)
(* C29  get does not go past an Entry.  A get whose path continues after  *)
(* a segment that leads to an Entry returns an error, for every requested *)
(* type, and never a value; so does get called on an Entry value itself,  *)
(* with any key.                                                           *)
(***************************************************************************)
OnEntry == Err("call get on entry variant", <<>>)

C29_GetPastEntryFails ==
    op = "get" =>
        /\ (\E n \in 1..(Len(K) - 1) : IsKind(After(Prefix(K, n)), "Entry")) =>
              /\ res = GetFail(OnEntry)
              /\ \A T \in Types : ConfigGet(root, K, T) = GetFail(OnEntry)
        /\ \A a \in Addrs : \A n \in 1..Len(IntoKey(a)) :
              IsKind(After(Prefix(IntoKey(a), n)), "Entry") =>
                  \A b \in Addrs, T \in Types :
                      ValueGet(After(Prefix(IntoKey(a), n)).v, IntoKey(b), T) = GetFail(OnEntry)

\* get("s.0.a") where s is an Array whose element 0 is the Entry "x"
C29_Witness ==
    /\ op = "get" /\ key = FromStr(AddrS0a) /\ ~res.ok
    /\ IsKind(After(<<AddrS>>), "Array")
    /\ After(<<AddrS, <<"0">>>>) = Some(Entry(<<"x">>))
    /\ ConfigGet(root, KeyFromStr(AddrS0), TString) = GetOk(VStr(<<"x">>))

(***************************************************************************)
(* C30  Path consumption.  peek returns the head segment and leaves the   *)
(* path as it was, so that a call that follows a peek, a peek or a next,  *)
(* returns the segment that peek returned; next returns the head, removes *)
(* exactly it and keeps the order of the segments that remain; on a path  *)
(* of no segments both return none and the path stays empty.              *)
(***************************************************************************)
\* the head of the segments the Key held before the call
HeadBefore == IF pre = <<>> THEN None ELSE Some(pre[1])

C30_PathConsumption ==
    /\ op = "peek" => res = HeadBefore /\ key.k = pre
    /\ op = "next" =>
          /\ res = HeadBefore
          /\ Len(key.k) = (IF pre = <<>> THEN 0 ELSE Len(pre) - 1)
          /\ \A i \in 1..Len(key.k) : key.k[i] = pre[i + 1]
    /\ (op \in {"peek", "next"} /\ arg.some) => res = arg.v

\* Key::from("s.a.b") after a next and a peek that returned "a": the next
\* that follows returns "a" too and leaves "b"
C30_Witness ==
    /\ op = "next" /\ pre = <<<<"a">>, <<"b">>>> /\ key.k = <<<<"b">>>>
    /\ arg = Some(Some(<<"a">>))
    /\ res = Some(<<"a">>)

====
